---------------------------- MODULE Spec2Model ----------------------------
(***************************************************************************)
(* A model of the DuneArchive record store (src/archive.py).               *)
(*                                                                         *)
(* Representation.  A Python str is a sequence of code points (naturals),  *)
(* a bytes / bytearray value is a sequence of naturals in 0..255, a file   *)
(* system is a function from path (a str) to the bytes of the file.  The   *)
(* catalog is an insertion-ordered dict: a sequence of entries with        *)
(* distinct names.  An operation either returns a value or raises; both    *)
(* outcomes are explicit values (Ok / Raise).                              *)
(***************************************************************************)
EXTENDS Integers, Sequences, FiniteSets, TLC

\* ------------------------------------------------------------------------
\* System constants (DuneArchive.__init__)
PAGE_SIZE == 4096
MAX_RECORDS_PER_PAGE == 10
MAX_PAGES_PER_FILE == 100
MAX_FIELDS_PER_TYPE == 10
MAX_TYPE_NAME_LENGTH == 12
MAX_FIELD_NAME_LENGTH == 20
MAX_STRING_LENGTH == 100

\* ------------------------------------------------------------------------
\* Outcomes of a call: a returned value or a raised exception.
Ok(v) == [ok |-> TRUE, v |-> v]
Raise(e) == [ok |-> FALSE, exc |-> e]

\* Python's None / a value, where both may be returned: <<>> is None.
None == <<>>
Some(v) == <<v>>

Min(a, b) == IF a <= b THEN a ELSE b
Max(a, b) == IF a >= b THEN a ELSE b

\* Python's s[a:b] for 0 <= a, 0 <= b: indices are clamped to len(s).
Slice(s, a, b) == SubSeq(s, Min(a, Len(s)) + 1, Min(b, Len(s)))

\* bytes(n) / b'\0' * n
Zeros(n) == [i \in 1..n |-> 0]

\* parts[lo] \o ... \o parts[hi], by halves (the depth of the evaluation stays small)
RECURSIVE Concat(_, _, _)
Concat(parts, lo, hi) ==
    IF lo > hi THEN << >>
    ELSE IF lo = hi THEN parts[lo]
    ELSE LET mid == (lo + hi) \div 2
         IN  Concat(parts, lo, mid) \o Concat(parts, mid + 1, hi)

\* The least element of a non-empty set of integers
Least(S) == CHOOSE x \in S : \A y \in S : x <= y

\* bytearray slice assignment  buf[a:b] = data  (0 <= a <= b): the bytes
\* a'..b' (clamped to len(buf)) are replaced by data, so the buffer grows
\* when the slice reaches past its end and data lands at the END of the
\* buffer when a is past its end.
SpliceSlice(buf, a, b, data) ==
    SubSeq(buf, 1, Min(a, Len(buf))) \o data \o SubSeq(buf, Min(b, Len(buf)) + 1, Len(buf))

\* ------------------------------------------------------------------------
\* Python integers.  TLC's integers are 32-bit, Python's are not: a
\* parsed integer (the result of int(value)) is kept as sign and decimal
\* magnitude, exactly, whatever its size; the 4-byte fields that
\* struct.unpack yields are ordinary integers.  An unsigned field at or above
\* 2^31 does not fit and stops the check with an overflow error; it is never
\* silently changed.

\* Decimal digit strings without leading zeros, compared as numbers.
DecLess(a, b) ==
    \/ Len(a) < Len(b)
    \/ /\ Len(a) = Len(b)
       /\ \E i \in 1..Len(a) : a[i] < b[i] /\ \A j \in 1..(i - 1) : a[j] = b[j]

RECURSIVE DecValue(_, _, _)
DecValue(d, i, acc) ==
    IF i > Len(d) THEN acc ELSE DecValue(d, i + 1, acc * 10 + (d[i] - 48))

\* "2147483647" and "2147483648"
INT_MAX_DEC == << 50, 49, 52, 55, 52, 56, 51, 54, 52, 55 >>
INT_MIN_MAG_DEC == << 50, 49, 52, 55, 52, 56, 51, 54, 52, 56 >>

\* The four little-endian bytes of n, 0 <= n < 2^31.
LeBytes(n) ==
    << n % 256, (n \div 256) % 256, (n \div 65536) % 256, (n \div 16777216) % 256 >>

\* struct.pack('I', n): struct.error unless 0 <= n < 2^32
struct_pack_I(n) == IF n < 0 THEN Raise("struct.error") ELSE Ok(LeBytes(n))

\* struct.unpack('I', b)[0]: struct.error unless len(b) = 4
struct_unpack_I(b) ==
    IF Len(b) # 4 THEN Raise("struct.error")
    ELSE Ok(b[1] + 256 * b[2] + 65536 * b[3] + 16777216 * b[4])

\* struct.pack('i', n) of a parsed integer n = [neg, mag]: struct.error unless
\* -2^31 <= n < 2^31; else the two's complement bytes.
struct_pack_i(n) ==
    IF ~n.neg
    THEN IF DecLess(INT_MAX_DEC, n.mag) THEN Raise("struct.error")
         ELSE Ok(LeBytes(DecValue(n.mag, 1, 0)))
    ELSE IF DecLess(INT_MIN_MAG_DEC, n.mag) THEN Raise("struct.error")
         ELSE IF n.mag = INT_MIN_MAG_DEC THEN Ok(<< 0, 0, 0, 128 >>)
         ELSE IF n.mag = << 48 >> THEN Ok(<< 0, 0, 0, 0 >>)
         ELSE LET w == LeBytes(2147483647 - DecValue(n.mag, 1, 0) + 1)
              IN  Ok(<< w[1], w[2], w[3], w[4] + 128 >>)

\* struct.unpack('i', b)[0]
struct_unpack_i(b) ==
    IF Len(b) # 4 THEN Raise("struct.error")
    ELSE IF b[4] < 128 THEN Ok(b[1] + 256 * b[2] + 65536 * b[3] + 16777216 * b[4])
    ELSE Ok((b[1] + 256 * b[2] + 65536 * b[3] + 16777216 * (b[4] - 128)) - 2147483647 - 1)

\* ------------------------------------------------------------------------
\* str.encode('utf-8') and bytes.decode('utf-8')
\* The surrogates U+D800..U+DFFF have no encoding.
IsSurrogate(c) == c >= 55296 /\ c <= 57343

\* chr(c).encode('utf-8')
Utf8EncodeChar(c) ==
    IF IsSurrogate(c) THEN Raise("UnicodeEncodeError")
    ELSE IF c < 128 THEN Ok(<< c >>)
    ELSE IF c < 2048 THEN Ok(<< 192 + (c \div 64), 128 + (c % 64) >>)
    ELSE IF c < 65536
    THEN Ok(<< 224 + (c \div 4096), 128 + ((c \div 64) % 64), 128 + (c % 64) >>)
    ELSE Ok(<< 240 + (c \div 262144), 128 + ((c \div 4096) % 64),
               128 + ((c \div 64) % 64), 128 + (c % 64) >>)

IsAscii(s) == \A i \in 1..Len(s) : s[i] < 128

\* s.encode('utf-8'): UnicodeEncodeError when s holds a surrogate
Utf8Encode(s) ==
    IF IsAscii(s) THEN Ok(s)
    ELSE IF \E i \in 1..Len(s) : ~Utf8EncodeChar(s[i]).ok THEN Raise("UnicodeEncodeError")
    ELSE Ok(Concat([i \in 1..Len(s) |-> Utf8EncodeChar(s[i]).v], 1, Len(s)))

IsCont(b, i) == i <= Len(b) /\ b[i] >= 128 /\ b[i] <= 191

\* The well-formed UTF-8 byte sequences (Unicode Table 3-7); the result is
\* << >> when the sequence starting at i is ill-formed, else <<cp, length>>.
Utf8DecodeAt(b, i) ==
    LET c == b[i]
    IN  IF c < 128 THEN << c, 1 >>
        ELSE IF c >= 194 /\ c <= 223 /\ IsCont(b, i + 1)
            THEN << (c - 192) * 64 + (b[i + 1] - 128), 2 >>
        ELSE IF c >= 224 /\ c <= 239 /\ IsCont(b, i + 1) /\ IsCont(b, i + 2)
                /\ (c = 224 => b[i + 1] >= 160) /\ (c = 237 => b[i + 1] <= 159)
            THEN << (c - 224) * 4096 + (b[i + 1] - 128) * 64 + (b[i + 2] - 128), 3 >>
        ELSE IF c >= 240 /\ c <= 244 /\ IsCont(b, i + 1) /\ IsCont(b, i + 2)
                /\ IsCont(b, i + 3)
                /\ (c = 240 => b[i + 1] >= 144) /\ (c = 244 => b[i + 1] <= 143)
            THEN << (c - 240) * 262144 + (b[i + 1] - 128) * 4096
                    + (b[i + 2] - 128) * 64 + (b[i + 3] - 128), 4 >>
        ELSE << >>

\* bytes.decode('utf-8').  A byte that is no continuation byte starts a
\* sequence; the bytes are well formed when every start begins a well-formed
\* sequence and every continuation byte belongs to one.
\* The text of well-formed bytes: starts are the indices of the bytes that
\* are no continuation bytes, at[i] is Utf8DecodeAt(b, i).
Utf8Decoded(b, starts, at) ==
    IF ~ (/\ \A i \in starts : at[i] # << >>
          /\ \A j \in (1..Len(b)) \ starts :
                \E i \in starts : i < j /\ j < i + at[i][2])
    THEN Raise("UnicodeDecodeError")
    ELSE Ok(Concat([i \in 1..Len(b) |-> IF i \in starts THEN << at[i][1] >> ELSE << >>],
                   1, Len(b)))

Utf8DecodeFrom(b, starts) == Utf8Decoded(b, starts, [i \in starts |-> Utf8DecodeAt(b, i)])

Utf8Decode(b) ==
    IF IsAscii(b) THEN Ok(b)
    ELSE Utf8DecodeFrom(b, { i \in 1..Len(b) : b[i] < 128 \/ b[i] > 191 })

\* str.ljust(width, '\0')
ljust(s, width) == IF Len(s) >= width THEN s ELSE s \o Zeros(width - Len(s))

\* str.rstrip('\0')
rstrip(s) ==
    LET keep == { i \in 1..Len(s) : s[i] # 0 }
    IN  IF keep = {} THEN << >>
        ELSE SubSeq(s, 1, CHOOSE i \in keep : \A j \in keep : j <= i)

\* ------------------------------------------------------------------------
\* int(value) and str(n) for base 10
\* [0-9], [a-zA-Z] and [a-zA-Z0-9] of the regular expressions
IsDigit(c) == c >= 48 /\ c <= 57
IsLetter(c) == (c >= 65 /\ c <= 90) \/ (c >= 97 /\ c <= 122)
IsAlnum(c) == IsDigit(c) \/ IsLetter(c)

\* The white space outside ASCII (White_Space of Unicode 14)
IsWideSpace(c) ==
    \/ c = 133 \/ c = 160 \/ c = 5760
    \/ (c >= 8192 /\ c <= 8202)
    \/ c = 8232 \/ c = 8233 \/ c = 8239 \/ c = 8287 \/ c = 12288

\* The characters int() skips around the literal
IsIntSpace(c) == (c >= 9 /\ c <= 13) \/ c = 32 \/ (c >= 133 /\ IsWideSpace(c))

\* str.isspace() of one character: what str.strip() and str.split() take for
\* white space; the separators U+001C..U+001F are white space here and not
\* for int().
IsSpace(c) == (c >= 9 /\ c <= 13) \/ (c >= 28 /\ c <= 32) \/ (c >= 133 /\ IsWideSpace(c))

\* s without the characters before the first and after the last one kept
Between(s, keep) ==
    IF keep = {} THEN << >>
    ELSE SubSeq(s, CHOOSE i \in keep : \A j \in keep : i <= j,
                   CHOOSE i \in keep : \A j \in keep : j <= i)

\* str.strip()
strip(s) == Between(s, { i \in 1..Len(s) : ~IsSpace(s[i]) })

\* The literal int() parses: the value without the surrounding white space.
IntLiteral(s) == Between(s, { i \in 1..Len(s) : ~IsIntSpace(s[i]) })

\* The digit zero of every script with decimal digits (the characters of
\* category Nd, Unicode 14); the nine characters after a zero are its 1..9.
DECIMAL_ZEROS ==
    { 48, 1632, 1776, 1984, 2406, 2534, 2662, 2790,
      2918, 3046, 3174, 3302, 3430, 3558, 3664, 3792,
      3872, 4160, 4240, 6112, 6160, 6470, 6608, 6784,
      6800, 6992, 7088, 7232, 7248, 42528, 43216, 43264,
      43472, 43504, 43600, 44016, 65296, 66720, 68912, 69734,
      69872, 69942, 70096, 70384, 70736, 70864, 71248, 71360,
      71472, 71904, 72016, 72784, 73040, 73120, 92768, 92864,
      93008, 120782, 120792, 120802, 120812, 120822, 123200, 123632,
      125264, 130032 }

\* A decimal digit of any script
IsDecimal(c) == IsDigit(c) \/ (c >= 1632 /\ \E z \in DECIMAL_ZEROS : c >= z /\ c <= z + 9)

\* The ASCII digit of the same value
AsciiDigit(c) ==
    IF IsDigit(c) THEN c ELSE 48 + c - (CHOOSE z \in DECIMAL_ZEROS : c >= z /\ c <= z + 9)

AsciiDigits(d) == [i \in 1..Len(d) |-> AsciiDigit(d[i])]

\* The digits part of an int literal: digits, with single underscores
\* allowed between two digits.
IsDigitsPart(d) ==
    /\ Len(d) >= 1
    /\ \A i \in 1..Len(d) :
          \/ IsDecimal(d[i])
          \/ (d[i] = 95 /\ i > 1 /\ i < Len(d) /\ IsDecimal(d[i - 1]) /\ IsDecimal(d[i + 1]))

\* sys.get_int_max_str_digits(): int() refuses a literal of more digits
MAX_STR_DIGITS == 4300

DigitCount(d) == Cardinality({ i \in 1..Len(d) : d[i] # 95 })

\* A stripped literal without its sign
Unsigned(t) == IF Len(t) >= 1 /\ (t[1] = 43 \/ t[1] = 45) THEN SubSeq(t, 2, Len(t)) ELSE t

IntBody(s) == Unsigned(IntLiteral(s))

HasMinus(t) == Len(t) >= 1 /\ t[1] = 45

IntIsNegative(s) == HasMinus(IntLiteral(s))

\* int(value) succeeds (no ValueError)
ParsesBody(d) == IsDigitsPart(d) /\ DigitCount(d) <= MAX_STR_DIGITS

IntParses(s) == ParsesBody(IntBody(s))

\* The digits of an int literal as ASCII digits: underscores and leading zeros
\* dropped.
FromFirst(d, nonzero) == IF nonzero = {} THEN << 48 >> ELSE SubSeq(d, Least(nonzero), Len(d))

DropLeadingZeros(d) ==
    IF d = << >> THEN d ELSE FromFirst(d, { i \in 1..Len(d) : d[i] # 48 })

Magnitude(d) == DropLeadingZeros(AsciiDigits(SelectSeq(d, IsDecimal)))

\* int(value), for a value that parses: sign and decimal magnitude (-0 is 0)
SignedMagnitude(neg, m) == [neg |-> neg /\ m # << 48 >>, mag |-> m]

int(s) == SignedMagnitude(IntIsNegative(s), Magnitude(IntBody(s)))

\* str(n) of a parsed integer
str_int(n) == IF n.neg THEN << 45 >> \o n.mag ELSE n.mag

RECURSIVE NatStr(_)
NatStr(n) == IF n < 10 THEN << 48 + n >> ELSE Append(NatStr(n \div 10), 48 + (n % 10))

\* The decimal digits of -n for n < 0 (n may be -2^31, whose negation does not fit)
RECURSIVE NegStr(_)
NegStr(n) ==
    LET d == (10 - (n % 10)) % 10
        rest == (n + d) \div 10
    IN  IF rest = 0 THEN << 48 + d >> ELSE Append(NegStr(rest), 48 + d)

\* str(n) of a 4-byte integer
str(n) == IF n < 0 THEN << 45 >> \o NegStr(n) ELSE NatStr(n)

\* ------------------------------------------------------------------------
\* The catalog: an insertion-ordered dict  type_name -> type_info, as the
\* sequence of its items (distinct names, in insertion order).
INT_T == << 105, 110, 116 >>                                        \* 'int'
STR_T == << 115, 116, 114 >>                                        \* 'str'
catalog_file == << 99, 97, 116, 97, 108, 111, 103, 46, 100, 97, 116 >>   \* "catalog.dat"

CatalogNames(cat) == { cat[i].name : i \in 1..Len(cat) }
InCatalog(cat, type_name) == type_name \in CatalogNames(cat)
\* self.catalog[type_name]
TypeInfo(cat, type_name) == cat[CHOOSE i \in 1..Len(cat) : cat[i].name = type_name]
\* self.catalog[type_name] = info
DictSet(cat, info) ==
    IF InCatalog(cat, info.name)
    THEN [i \in 1..Len(cat) |-> IF cat[i].name = info.name THEN info ELSE cat[i]]
    ELSE Append(cat, info)

\* The bytes the fields of one kind add: the loop's additions, counted
\* (a catalog file that does not hold a catalog can give hundreds of fields)
FieldsOfKind(fields, kind) == Cardinality({ i \in 1..Len(fields) : fields[i][2] = kind })

\* DuneArchive._calculate_record_size
_calculate_record_size(fields) ==
    1 + 4 * FieldsOfKind(fields, INT_T) + MAX_STRING_LENGTH * FieldsOfKind(fields, STR_T)

\* DuneArchive._get_data_file_path: f"{type_name}.dat"
_get_data_file_path(type_name) == type_name \o << 46, 100, 97, 116 >>

\* DuneArchive._create_page_header: struct.pack('III', ...)
PackedHeader(a, b, c) ==
    IF ~a.ok THEN a ELSE IF ~b.ok THEN b ELSE IF ~c.ok THEN c
    ELSE Ok(a.v \o b.v \o c.v)

_create_page_header(page_number, num_records, bitmap) ==
    PackedHeader(struct_pack_I(page_number), struct_pack_I(num_records),
                 struct_pack_I(bitmap))

\* DuneArchive._parse_page_header: struct.unpack('III', header_data[:12])
_parse_page_header(header_data) ==
    << struct_unpack_I(Slice(header_data, 0, 4)).v,
       struct_unpack_I(Slice(header_data, 4, 8)).v,
       struct_unpack_I(Slice(header_data, 8, 12)).v >>

\* ------------------------------------------------------------------------
\* Record codec
RECURSIVE SerializeFrom(_, _, _, _)
\* record_data += the bytes of the field, packed being the struct.pack or the
\* encode that gives them
SerializePacked(fields, values, i, record_data, packed) ==
    IF ~packed.ok THEN packed
    ELSE SerializeFrom(fields, values, i + 1, record_data \o packed.v)

SerializeFrom(fields, values, i, record_data) ==
    IF i > Len(fields) THEN Ok(record_data)
    ELSE IF fields[i][2] = INT_T
    THEN IF i > Len(values) THEN Raise("IndexError")
         ELSE IF ~IntParses(values[i]) THEN Raise("ValueError")
         ELSE SerializePacked(fields, values, i, record_data, struct_pack_i(int(values[i])))
    ELSE IF fields[i][2] = STR_T
    THEN IF i > Len(values) THEN Raise("IndexError")
         ELSE SerializePacked(fields, values, i, record_data,
                              Utf8Encode(ljust(Slice(values[i], 0, MAX_STRING_LENGTH - 1),
                                               MAX_STRING_LENGTH)))
    ELSE SerializeFrom(fields, values, i + 1, record_data)

\* DuneArchive._serialize_record
_serialize_record(cat, type_name, values) ==
    IF ~InCatalog(cat, type_name) THEN Raise("KeyError")
    ELSE SerializeFrom(TypeInfo(cat, type_name).fields, values, 1, << 1 >>)

RECURSIVE DeserializeFrom(_, _, _, _, _)
\* values.append(str(value)), value being the struct.unpack
DeserializeInt(fields, record_data, i, offset, values, value) ==
    IF ~value.ok THEN value
    ELSE DeserializeFrom(fields, record_data, i + 1, offset + 4, Append(values, str(value.v)))

\* values.append(value), decoded being value_bytes.decode('utf-8')
DeserializeStr(fields, record_data, i, offset, values, decoded) ==
    IF ~decoded.ok THEN decoded
    ELSE DeserializeFrom(fields, record_data, i + 1, offset + MAX_STRING_LENGTH,
                         Append(values, rstrip(decoded.v)))

DeserializeFrom(fields, record_data, i, offset, values) ==
    IF i > Len(fields) THEN Ok(Some(values))
    ELSE IF fields[i][2] = INT_T
    THEN DeserializeInt(fields, record_data, i, offset, values,
                        struct_unpack_i(Slice(record_data, offset, offset + 4)))
    ELSE IF fields[i][2] = STR_T
    THEN DeserializeStr(fields, record_data, i, offset, values,
                        Utf8Decode(Slice(record_data, offset, offset + MAX_STRING_LENGTH)))
    ELSE DeserializeFrom(fields, record_data, i + 1, offset, values)

\* DuneArchive._deserialize_record: Ok(None) for a record whose validity
\* flag is 0, Ok(Some(values)) for a valid one.
_deserialize_record(cat, type_name, record_data) ==
    IF ~InCatalog(cat, type_name) THEN Raise("KeyError")
    ELSE IF Len(record_data) = 0 THEN Raise("struct.error")
    ELSE IF record_data[1] = 0 THEN Ok(None)
    ELSE DeserializeFrom(TypeInfo(cat, type_name).fields, record_data, 1, 1, << >>)

\* ------------------------------------------------------------------------
\* Validators
\* ^(?=.*[a-zA-Z])[a-zA-Z0-9]+$ under re.match: $ also matches before a
\* final newline.
RegexBody(s) == IF Len(s) >= 1 /\ s[Len(s)] = 10 THEN SubSeq(s, 1, Len(s) - 1) ELSE s

\* DuneArchive._is_valid_string_value
_is_valid_string_value(value) ==
    LET b == RegexBody(value) IN Len(b) >= 1 /\ \A i \in 1..Len(b) : IsAlnum(b[i])

\* DuneArchive._is_valid_name
_is_valid_name(name) ==
    /\ _is_valid_string_value(name)
    /\ \E i \in 1..Len(RegexBody(name)) : IsLetter(name[i])

\* DuneArchive._is_valid_int_value
_is_valid_int_value(value) == IntParses(value)

\* ------------------------------------------------------------------------
\* Page store.  files: path -> bytes, for the paths that exist.
Exists(files, path) == path \in DOMAIN files

\* open(path, 'wb') ... write(data): the file holds exactly data
WriteFile(files, path, data) ==
    [q \in (DOMAIN files) \cup {path} |-> IF q = path THEN data ELSE files[q]]

\* open(path, 'r+b'); seek(offset); write(data): a write past the end of the
\* file leaves zeros between the end and the offset
WriteAt(bytes, offset, data) ==
    IF offset > Len(bytes) THEN bytes \o Zeros(offset - Len(bytes)) \o data
    ELSE SubSeq(bytes, 1, offset) \o data \o SubSeq(bytes, offset + Len(data) + 1, Len(bytes))

\* DuneArchive._load_page: << page_data, num_records, bitmap >>, page_data
\* None when the file is missing or holds fewer than 12 bytes of the page.
\* The page read, with its parsed header
PageRead(page_data, header) == << Some(page_data), header[2], header[3] >>

\* page_data = f.read(PAGE_SIZE) and what follows
PageOf(page_data) ==
    IF Len(page_data) < 12 THEN << None, 0, 0 >>
    ELSE PageRead(page_data, _parse_page_header(page_data))

_load_page(files, type_name, page_number) ==
    IF ~Exists(files, _get_data_file_path(type_name)) THEN << None, 0, 0 >>
    ELSE PageOf(Slice(files[_get_data_file_path(type_name)],
                      page_number * PAGE_SIZE, page_number * PAGE_SIZE + PAGE_SIZE))

\* DuneArchive._save_page: the files after the call
_save_page(files, type_name, page_number, page_data) ==
    LET file_path == _get_data_file_path(type_name)
        required_size == (page_number + 1) * PAGE_SIZE
        extended ==
            IF ~Exists(files, file_path) THEN Zeros(required_size)
            ELSE IF Len(files[file_path]) < required_size
                 THEN files[file_path] \o Zeros(required_size - Len(files[file_path]))
                 ELSE files[file_path]
    IN  WriteFile(files, file_path, WriteAt(extended, page_number * PAGE_SIZE, page_data))

\* DuneArchive._find_primary_key_value: values[primary_key_order - 1]
ListIndex(list, idx) ==
    IF idx >= 0 /\ idx < Len(list) THEN Ok(list[idx + 1])
    ELSE IF idx < 0 /\ -idx <= Len(list) THEN Ok(list[Len(list) + idx + 1])
    ELSE Raise("IndexError")

_find_primary_key_value(cat, type_name, values) ==
    ListIndex(values, TypeInfo(cat, type_name).primary_key_order - 1)

\* bitmap & (1 << slot)
BitIsSet(bitmap, slot) == (bitmap \div (2 ^ slot)) % 2 = 1
\* The bitmap left as it is
BitOr_unset(bitmap, slot) == bitmap
\* bitmap | (1 << slot)
BitOr(bitmap, slot) == IF BitIsSet(bitmap, slot) THEN bitmap ELSE bitmap + 2 ^ slot
\* bitmap & ~(1 << slot)
BitAndNot(bitmap, slot) == IF BitIsSet(bitmap, slot) THEN bitmap - 2 ^ slot ELSE bitmap

\* ------------------------------------------------------------------------
\* search_record
\* The record of a slot decoded and compared with the key: Ok(None) when it
\* is no match, Ok(Some(values)) when it is, or the exception of the decode.
\* if values and values[primary_key_index] == primary_key, key being the
\* indexing of the decoded values
MatchKey(values, key, primary_key) ==
    IF ~key.ok THEN key
    ELSE IF key.v = primary_key THEN values ELSE Ok(None)

MatchValues(type_info, values, primary_key) ==
    IF ~values.ok THEN values
    ELSE IF values.v = None \/ values.v[1] = << >> THEN Ok(None)
    ELSE MatchKey(values, ListIndex(values.v[1], type_info.primary_key_order - 1), primary_key)

\* page_data[record_offset:record_offset + record_size] of a slot
RecordAt(page_data, slot, record_size) ==
    Slice(page_data, 12 + slot * record_size, 12 + slot * record_size + record_size)

MatchSlot(cat, type_name, page_data, slot, primary_key) ==
    MatchValues(TypeInfo(cat, type_name),
                _deserialize_record(cat, type_name,
                                    RecordAt(page_data, slot, TypeInfo(cat, type_name).record_size)),
                primary_key)

\* The slots slot..9 of one page, in order: Ok(None), or the first match as
\* Ok(<< values, slot >>), or an exception.
RECURSIVE ScanSlots(_, _, _, _, _, _)
\* The scan from a used slot on, m being the match of that slot
ScanFrom(cat, type_name, page_data, bitmap, slot, primary_key, m) ==
    IF ~m.ok THEN m
    ELSE IF m.v # None THEN Ok(<< m.v[1], slot >>)
    ELSE ScanSlots(cat, type_name, page_data, bitmap, slot + 1, primary_key)

ScanSlots(cat, type_name, page_data, bitmap, slot, primary_key) ==
    IF slot >= MAX_RECORDS_PER_PAGE THEN Ok(None)
    ELSE IF ~BitIsSet(bitmap, slot)
    THEN ScanSlots(cat, type_name, page_data, bitmap, slot + 1, primary_key)
    ELSE ScanFrom(cat, type_name, page_data, bitmap, slot, primary_key,
                  MatchSlot(cat, type_name, page_data, slot, primary_key))

\* One page of the scan: Ok(None) for a page that is skipped (missing, or
\* num_records = 0) or holds no match, else the match or the exception.
ScanLoaded(cat, type_name, page, primary_key) ==
    IF page[1] = None \/ page[2] = 0 THEN Ok(None)
    ELSE ScanSlots(cat, type_name, page[1][1], page[3], 0, primary_key)

ScanPage(cat, files, type_name, page_number, primary_key) ==
    ScanLoaded(cat, type_name, _load_page(files, type_name, page_number), primary_key)

\* while page_number < 100: the first page, in order, whose scan ends the
\* loop (a match or an exception): Ok(None), Ok(<< values, slot,
\* page_number >>), or the exception.
EndsScan(m) == ~m.ok \/ m.v # None

EndingPages(cat, files, type_name, primary_key) ==
    { page_number \in 0..(MAX_PAGES_PER_FILE - 1) :
        EndsScan(ScanPage(cat, files, type_name, page_number, primary_key)) }

FoundOnPage(m, page_number) ==
    IF ~m.ok THEN m ELSE Ok(<< m.v[1], m.v[2], page_number >>)

ScanEnding(cat, files, type_name, primary_key, page_number) ==
    FoundOnPage(ScanPage(cat, files, type_name, page_number, primary_key), page_number)

ScanUpTo(cat, files, type_name, primary_key, ending) ==
    IF ending = {} THEN Ok(None)
    ELSE ScanEnding(cat, files, type_name, primary_key, Least(ending))

ScanPages(cat, files, type_name, primary_key) ==
    ScanUpTo(cat, files, type_name, primary_key,
             EndingPages(cat, files, type_name, primary_key))

\* DuneArchive._search_record_internal: Ok(None), Ok(Some(values)) or an
\* exception.
SearchResult(m) ==
    IF ~m.ok THEN m ELSE IF m.v = None THEN Ok(None) ELSE Ok(Some(m.v[1]))

_search_record_internal(cat, files, type_name, primary_key) ==
    IF ~InCatalog(cat, type_name) THEN Ok(None)
    ELSE SearchResult(ScanPages(cat, files, type_name, primary_key))

\* DuneArchive.search_record
search_record(cat, files, type_name, primary_key) ==
    _search_record_internal(cat, files, type_name, primary_key)

\* ------------------------------------------------------------------------
\* create_record
\* The validation loop over zip(fields, values)
ValuesValid(fields, values) ==
    \A i \in 1..Min(Len(fields), Len(values)) :
        /\ (fields[i][2] = INT_T => _is_valid_int_value(values[i]))
        /\ (fields[i][2] = STR_T => _is_valid_string_value(values[i]))

\* for slot in range(10): if not (bitmap & (1 << slot)): the first such slot
FreeSlots(bitmap) == { slot \in 0..(MAX_RECORDS_PER_PAGE - 1) : ~BitIsSet(bitmap, slot) }

\* The free slot with the highest number
LastFreeSlot(bitmap) == CHOOSE slot \in FreeSlots(bitmap) : \A other \in FreeSlots(bitmap) : other <= slot

FirstFreeSlot(bitmap) == Least(FreeSlots(bitmap))

\* The bitmap the allocation loop sees for a page (0 for a page not on disk)
BitmapOf(page) == IF page[1] = None THEN 0 ELSE page[3]

SeenBitmap(files, type_name, page_number) ==
    BitmapOf(_load_page(files, type_name, page_number))

\* The allocation loop: the record goes to the first page of 0..99 with a
\* free slot; [out, files].
OpenPages(files, type_name) ==
    { page_number \in 0..(MAX_PAGES_PER_FILE - 1) :
        FreeSlots(SeenBitmap(files, type_name, page_number)) # {} }

\* The page the loop works on, << page_data, num_records, bitmap >>: the
\* page of the file, or the new page made for a page that is not there
WorkPage(page, page_number) ==
    IF page[1] = None
    THEN << SpliceSlice(Zeros(PAGE_SIZE), 0, 12, _create_page_header(page_number, 0, 0).v), 0, 0 >>
    ELSE << page[1][1], page[2], page[3] >>

\* page_data[:12] = header and _save_page, header being the
\* _create_page_header of the new count and bitmap; [out, files], and save,
\* the arguments of the _save_page call
SaveWithHeader(files, type_name, page_number, page_data, header) ==
    IF ~header.ok THEN [out |-> header, files |-> files]
    ELSE [out |-> Ok(TRUE),
          files |-> _save_page(files, type_name, page_number,
                               SpliceSlice(page_data, 0, 12, header.v)),
          save |-> [type_name |-> type_name, page_number |-> page_number,
                    page_data |-> SpliceSlice(page_data, 0, 12, header.v)]]

\* page_data[record_offset:record_offset + len(record_data)] = record_data
\* and the update of the header
PlaceInSlot(files, type_name, page_number, record_size, record_data, work, free_slot) ==
    SaveWithHeader(files, type_name, page_number,
                   SpliceSlice(work[1], 12 + free_slot * record_size,
                               12 + free_slot * record_size + Len(record_data), record_data),
                   _create_page_header(page_number, work[2] + 1, BitOr(work[3], free_slot)))

PlaceInPage(files, type_name, page_number, record_size, record_data, work) ==
    PlaceInSlot(files, type_name, page_number, record_size, record_data, work,
                FirstFreeSlot(work[3]))

AllocateAt(files, type_name, record_size, record_data, page_number) ==
    PlaceInPage(files, type_name, page_number, record_size, record_data,
                WorkPage(_load_page(files, type_name, page_number), page_number))

AllocateIn(files, type_name, record_size, record_data, open) ==
    IF open = {} THEN [out |-> Ok(FALSE), files |-> files]
    ELSE AllocateAt(files, type_name, record_size, record_data, Least(open))

Allocate(files, type_name, record_size, record_data) ==
    AllocateIn(files, type_name, record_size, record_data, OpenPages(files, type_name))

\* DuneArchive.create_record: [out, files]
\* create_record from "Serialize record" on, record_data being the
\* serialization
CreateSerialized(files, type_name, record_size, record_data) ==
    IF ~record_data.ok THEN [out |-> record_data, files |-> files]
    ELSE Allocate(files, type_name, record_size, record_data.v)

\* The record stored all the same when the key is found, False returned
CreateUnlessFound_storing(cat, files, type_name, values, found) ==
    IF ~found.ok THEN [out |-> found, files |-> files]
    ELSE [out |-> Ok(found.v = None),
          files |-> CreateSerialized(files, type_name, TypeInfo(cat, type_name).record_size,
                                     _serialize_record(cat, type_name, values)).files]

\* create_record from the duplicate check on, found being the search
CreateUnlessFound(cat, files, type_name, values, found) ==
    IF ~found.ok THEN [out |-> found, files |-> files]
    ELSE IF found.v # None THEN [out |-> Ok(FALSE), files |-> files]
    ELSE CreateSerialized(files, type_name, TypeInfo(cat, type_name).record_size,
                          _serialize_record(cat, type_name, values))

CreateWithKey(cat, files, type_name, values, primary_key_value) ==
    IF ~primary_key_value.ok THEN [out |-> primary_key_value, files |-> files]
    ELSE CreateUnlessFound(cat, files, type_name, values,
                           _search_record_internal(cat, files, type_name, primary_key_value.v))

create_record(cat, files, type_name, values) ==
    IF ~InCatalog(cat, type_name) THEN [out |-> Ok(FALSE), files |-> files]
    ELSE IF Len(values) # Len(TypeInfo(cat, type_name).fields)
    THEN [out |-> Ok(FALSE), files |-> files]
    ELSE IF ~ValuesValid(TypeInfo(cat, type_name).fields, values)
    THEN [out |-> Ok(FALSE), files |-> files]
    ELSE CreateWithKey(cat, files, type_name, values,
                       _find_primary_key_value(cat, type_name, values))

\* ------------------------------------------------------------------------
\* DuneArchive.delete_record: [out, files]
\* page_data[record_offset] = 0 and the update of the header, page being
\* the page of the match
DeleteInPage(files, type_name, page_number, slot, record_size, page) ==
    SaveWithHeader(files, type_name, page_number,
                   [page[1][1] EXCEPT ![12 + slot * record_size + 1] = 0],
                   _create_page_header(page_number, page[2] - 1, BitAndNot(page[3], slot)))

\* delete_record after its scan, m being the match << values, slot,
\* page_number >> of the scan
DeleteMatch(cat, files, type_name, m) ==
    IF ~m.ok THEN [out |-> m, files |-> files]
    ELSE IF m.v = None THEN [out |-> Ok(FALSE), files |-> files]
    ELSE DeleteInPage(files, type_name, m.v[3], m.v[2], TypeInfo(cat, type_name).record_size,
                      _load_page(files, type_name, m.v[3]))

delete_record(cat, files, type_name, primary_key) ==
    IF ~InCatalog(cat, type_name) THEN [out |-> Ok(FALSE), files |-> files]
    ELSE DeleteMatch(cat, files, type_name, ScanPages(cat, files, type_name, primary_key))

\* ------------------------------------------------------------------------
\* Catalog store
\* struct.pack('I', len(b)) and b
LengthPrefixed(b) == struct_pack_I(Len(b)).v \o b

\* The writes of the save, in order, each one the bytes written or the
\* exception raised in its place.
\* One field: both strings are encoded before either is written.
EncodedField(name, type) ==
    IF ~name.ok THEN name ELSE IF ~type.ok THEN type
    ELSE Ok(LengthPrefixed(name.v) \o LengthPrefixed(type.v))

FieldBytes(field) == EncodedField(Utf8Encode(field[1]), Utf8Encode(field[2]))

EncodedName(name) == IF ~name.ok THEN name ELSE Ok(LengthPrefixed(name.v))

TypeBytes(info) ==
    << EncodedName(Utf8Encode(info.name)),
       Ok(struct_pack_I(Len(info.fields)).v \o struct_pack_I(info.primary_key_order).v) >>
    \o [i \in 1..Len(info.fields) |-> FieldBytes(info.fields[i])]

CatalogWrites(cat) == Concat([i \in 1..Len(cat) |-> TypeBytes(cat[i])], 1, Len(cat))

\* The bytes of the writes before the first one that raises
WrittenBefore(writes, failed) ==
    IF failed = {} THEN Concat([i \in 1..Len(writes) |-> writes[i].v], 1, Len(writes))
    ELSE Concat([i \in 1..(Least(failed) - 1) |-> writes[i].v], 1, Least(failed) - 1)

Written(writes) == WrittenBefore(writes, { i \in 1..Len(writes) : ~writes[i].ok })

\* The file the save leaves: the whole catalog, or what was written before a
\* name that has no encoding (a surrogate in it) ended the save.
CatalogBytes(cat) == Written(CatalogWrites(cat))

\* The save raises UnicodeEncodeError: one of its strings has no encoding
SaveRaises(cat) ==
    \E i \in 1..Len(cat) :
        \/ ~Utf8Encode(cat[i].name).ok
        \/ \E j \in 1..Len(cat[i].fields) :
               ~Utf8Encode(cat[i].fields[j][1]).ok \/ ~Utf8Encode(cat[i].fields[j][2]).ok

\* DuneArchive._save_catalog: the files after the call
_save_catalog(cat, files) == WriteFile(files, catalog_file, CatalogBytes(cat))

\* One length-prefixed string at offset: Ok(<< string, offset after >>)
ReadText(text, after) == IF ~text.ok THEN text ELSE Ok(<< text.v, after >>)

ReadOfLength(data, offset, len) ==
    IF ~len.ok THEN len
    ELSE ReadText(Utf8Decode(Slice(data, offset + 4, offset + 4 + len.v)), offset + 4 + len.v)

ReadString(data, offset) ==
    ReadOfLength(data, offset, struct_unpack_I(Slice(data, offset, offset + 4)))

\* The load as a loop.  Its state: the offset, the catalog so far, the type
\* being read (open, with the fields still to read) and whether the loop has
\* ended.  One step reads a type's head, reads one field, or adds the
\* finished type to the catalog; an exception ends the load and keeps the
\* types added so far (except: pass).
LoadStart ==
    [offset |-> 0, cat |-> << >>, open |-> FALSE, type_name |-> << >>, left |-> 0,
     primary_key_order |-> 0, fields |-> << >>, done |-> FALSE]

\* num_fields and primary_key_order read after the type's name
LoadHead(st, type_name, num_fields, primary_key_order) ==
    IF ~num_fields.ok \/ ~primary_key_order.ok THEN [st EXCEPT !.done = TRUE]
    ELSE [st EXCEPT !.offset = type_name.v[2] + 8, !.open = TRUE,
                    !.type_name = type_name.v[1],
                    !.left = num_fields.v,
                    !.primary_key_order = primary_key_order.v,
                    !.fields = << >>]

LoadType(data, st, type_name) ==
    IF ~type_name.ok THEN [st EXCEPT !.done = TRUE]
    ELSE LoadHead(st, type_name,
                  struct_unpack_I(Slice(data, type_name.v[2], type_name.v[2] + 4)),
                  struct_unpack_I(Slice(data, type_name.v[2] + 4, type_name.v[2] + 8)))

LoadFieldType(st, field_name, field_type) ==
    IF ~field_type.ok THEN [st EXCEPT !.done = TRUE]
    ELSE [st EXCEPT !.offset = field_type.v[2], !.left = st.left - 1,
                    !.fields = Append(st.fields, << field_name.v[1], field_type.v[1] >>)]

LoadField(data, st, field_name) ==
    IF ~field_name.ok THEN [st EXCEPT !.done = TRUE]
    ELSE LoadFieldType(st, field_name, ReadString(data, field_name.v[2]))

LoadStep(data, st) ==
    IF st.done THEN st
    ELSE IF ~st.open
    THEN IF st.offset >= Len(data) THEN [st EXCEPT !.done = TRUE]
         ELSE LoadType(data, st, ReadString(data, st.offset))
    ELSE IF st.left > 0
    THEN LoadField(data, st, ReadString(data, st.offset))
    ELSE [st EXCEPT !.open = FALSE,
                    !.cat = DictSet(st.cat, [name |-> st.type_name,
                                             fields |-> st.fields,
                                             primary_key_order |-> st.primary_key_order,
                                             record_size |-> _calculate_record_size(st.fields)])]

\* n steps of the loop, by halves (the depth of the evaluation stays small)
RECURSIVE LoadSteps(_, _, _)
LoadSteps(data, st, n) ==
    IF st.done \/ n = 0 THEN st
    ELSE IF n = 1 THEN LoadStep(data, st)
    ELSE LoadSteps(data, LoadSteps(data, st, n \div 2), n - (n \div 2))

\* DuneArchive._load_catalog on a new engine (catalog = {}): the catalog.
\* Every step but the one that adds a type reads at least 8 bytes, so the
\* loop ends within len(data) + 2 steps.
_load_catalog(files) ==
    IF ~Exists(files, catalog_file) THEN << >>
    ELSE LoadSteps(files[catalog_file], LoadStart, Len(files[catalog_file]) + 2).cat

\* ------------------------------------------------------------------------
\* create_type
\* for i in range(0, len(field_specs), 2): Ok(fields), Ok(None) for
\* "return False", or IndexError for a list of odd length.
RECURSIVE ParseFieldSpecs(_, _, _)
ParseFieldSpecs(field_specs, i, fields) ==
    IF i >= Len(field_specs) THEN Ok(Some(fields))
    ELSE IF i + 1 >= Len(field_specs) THEN Raise("IndexError")
    ELSE LET field_name == field_specs[i + 1]
             field_type == field_specs[i + 2]
         IN  IF ~_is_valid_name(field_name) THEN Ok(None)
             ELSE IF Len(field_name) > MAX_FIELD_NAME_LENGTH THEN Ok(None)
             ELSE IF field_type \notin { INT_T, STR_T } THEN Ok(None)
             ELSE ParseFieldSpecs(field_specs, i + 2, Append(fields, << field_name, field_type >>))

\* create_type, "Add to catalog" and "Save catalog": the dict assignment
\* and the full rewrite of the catalog file
SaveAdded(added, files) ==
    [out |-> IF SaveRaises(added) THEN Raise("UnicodeEncodeError") ELSE Ok(TRUE),
     catalog |-> added, files |-> _save_catalog(added, files)]

AddType(cat, files, type_name, primary_key_order, fields) ==
    SaveAdded(DictSet(cat, [name |-> type_name,
                            fields |-> fields,
                            primary_key_order |-> primary_key_order,
                            record_size |-> _calculate_record_size(fields)]),
              files)

\* AddParsed without the comparison of len(fields) with num_fields
AddParsed_any_count(cat, files, type_name, num_fields, primary_key_order, fields) ==
    IF ~fields.ok \/ fields.v = None
    THEN [out |-> IF fields.ok THEN Ok(FALSE) ELSE fields, catalog |-> cat, files |-> files]
    ELSE AddType(cat, files, type_name, primary_key_order, fields.v[1])

\* create_type from "Parse field specifications" to its end
\* create_type after its loop over field_specs, fields being what the loop
\* gave: the check of the field count, then the addition
AddParsed(cat, files, type_name, num_fields, primary_key_order, fields) ==
    IF ~fields.ok THEN [out |-> fields, catalog |-> cat, files |-> files]
    ELSE IF fields.v = None \/ Len(fields.v[1]) # num_fields
    THEN [out |-> Ok(FALSE), catalog |-> cat, files |-> files]
    ELSE AddType(cat, files, type_name, primary_key_order, fields.v[1])

\* create_type from "Parse field specifications" to its end
ParseAndAdd(cat, files, type_name, num_fields, primary_key_order, field_specs) ==
    AddParsed(cat, files, type_name, num_fields, primary_key_order,
              ParseFieldSpecs(field_specs, 0, << >>))

\* create_type without the test "type_name in self.catalog"
create_type_overwriting(cat, files, type_name, num_fields, primary_key_order, field_specs) ==
    LET unchanged(out) == [out |-> out, catalog |-> cat, files |-> files]
    IN  IF ~_is_valid_name(type_name) THEN unchanged(Ok(FALSE))
        ELSE IF Len(type_name) > MAX_TYPE_NAME_LENGTH THEN unchanged(Ok(FALSE))
        ELSE IF num_fields > MAX_FIELDS_PER_TYPE THEN unchanged(Ok(FALSE))
        ELSE IF primary_key_order < 1 \/ primary_key_order > num_fields THEN unchanged(Ok(FALSE))
        ELSE ParseAndAdd(cat, files, type_name, num_fields, primary_key_order, field_specs)

\* DuneArchive.create_type: [out, catalog, files]
create_type(cat, files, type_name, num_fields, primary_key_order, field_specs) ==
    LET unchanged(out) == [out |-> out, catalog |-> cat, files |-> files]
    IN  IF InCatalog(cat, type_name) THEN unchanged(Ok(FALSE))
        ELSE IF ~_is_valid_name(type_name) THEN unchanged(Ok(FALSE))
        ELSE IF Len(type_name) > MAX_TYPE_NAME_LENGTH THEN unchanged(Ok(FALSE))
        ELSE IF num_fields > MAX_FIELDS_PER_TYPE THEN unchanged(Ok(FALSE))
        ELSE IF primary_key_order < 1 \/ primary_key_order > num_fields THEN unchanged(Ok(FALSE))
        ELSE ParseAndAdd(cat, files, type_name, num_fields, primary_key_order, field_specs)

\* ------------------------------------------------------------------------
\* What a type's data file holds
NumPages(files, type_name) ==
    LET file_path == _get_data_file_path(type_name)
    IN  IF ~Exists(files, file_path) THEN 0
        ELSE Min(MAX_PAGES_PER_FILE, (Len(files[file_path]) + PAGE_SIZE - 1) \div PAGE_SIZE)

\* The bytes of slot `slot` of a loaded page
SlotBytes(cat, type_name, page_data, slot) ==
    LET record_size == TypeInfo(cat, type_name).record_size
    IN  Slice(page_data, 12 + slot * record_size, 12 + (slot + 1) * record_size)

\* The valid records of a type: << page_number, slot, values >> for every
\* slot whose bitmap bit is set and whose bytes decode to a record.
StoredRecords(cat, files, type_name) ==
    UNION { LET page == _load_page(files, type_name, page_number)
            IN  IF page[1] = None THEN {}
                ELSE { << page_number, slot,
                          _deserialize_record(cat, type_name,
                                              SlotBytes(cat, type_name, page[1][1], slot)).v[1] >> :
                       slot \in { sl \in 0..(MAX_RECORDS_PER_PAGE - 1) :
                                     /\ BitIsSet(page[3], sl)
                                     /\ LET d == _deserialize_record(cat, type_name,
                                                   SlotBytes(cat, type_name, page[1][1], sl))
                                        IN  d.ok /\ d.v # None } }
            : page_number \in 0..(NumPages(files, type_name) - 1) }

\* The primary-key value of decoded values
KeyOf(cat, type_name, values) == values[TypeInfo(cat, type_name).primary_key_order]

\* ------------------------------------------------------------------------
\* The engine as a state machine
VARIABLES
    catalog,   \* self.catalog
    files,     \* the directory: path -> bytes
    result,    \* the last call: [op, args, out]
    live,      \* history: <<type_name, key>> -> the values of the last create_record that
               \* returned True with that key and has not been deleted since
    nops,      \* the number of calls so far that changed the catalog or a file
    batch,     \* main(): the lines of the input file, how many of them were read,
               \* the rows of log.csv, the lines of output.txt, and where main is
    inflight   \* the calls that have started and not returned: a call's locals

vars == << catalog, files, result, live, nops, batch, inflight >>

\* No batch is running, no call is in flight
NoBatch == [lines |-> << >>, read |-> 0, log |-> << >>, output |-> << >>, at |-> "idle"]
NoCalls == << >>

\* The bound on the calls that change the store.
MaxOps == 4

\* Inputs.  Strings are written as code points, with the text beside them.
N_T == << 84 >>                                              \* "T"
N_S == << 83 >>                                              \* "S"
N_CATALOG == << 99, 97, 116, 97, 108, 111, 103 >>            \* "catalog"
N_W == << 87 >>                                              \* "W"
N_U == << 85 >>                                              \* "U", never created
F_K == << 107 >>                                             \* "k"
F_V == << 118 >>                                             \* "v"
V_7 == << 55 >>                                              \* "7"
V_07 == << 48, 55 >>                                         \* "07"
V_NEG == << 45, 51 >>                                        \* "-3"
V_BIG == << 50, 49, 52, 55, 52, 56, 51, 54, 52, 56 >>        \* "2147483648"
V_A == << 97 >>                                              \* "a"
V_BAD == << 97, 33 >>                                        \* "a!"
V_LONG == [i \in 1..MAX_STRING_LENGTH |-> 97]                \* "a" * 100

TypeCall(type_name, num_fields, primary_key_order, field_specs) ==
    [type_name |-> type_name, num_fields |-> num_fields,
     primary_key_order |-> primary_key_order, field_specs |-> field_specs]

\* create_type calls that meet every precondition on an empty catalog
GoodTypeCalls ==
    { TypeCall(N_T, 1, 1, << F_K, INT_T >>),
      TypeCall(N_T, 2, 2, << F_V, STR_T, F_K, INT_T >>),
      TypeCall(N_S, 1, 1, << F_K, STR_T >>),
      TypeCall(N_CATALOG, 1, 1, << F_K, INT_T >>),
      TypeCall(N_W, 5, 1, << F_K, STR_T, F_V, STR_T, F_V, STR_T, F_V, STR_T, F_V, STR_T >>) }

\* create_type calls that fail a precondition, one per precondition
BadTypeCalls ==
    { TypeCall(<< >>, 1, 1, << F_K, INT_T >>),                              \* empty name
      TypeCall(V_7, 1, 1, << F_K, INT_T >>),                                \* no letter
      TypeCall(V_BAD, 1, 1, << F_K, INT_T >>),                              \* not alphanumeric
      TypeCall([i \in 1..(MAX_TYPE_NAME_LENGTH + 1) |-> 97], 1, 1, << F_K, INT_T >>),
      TypeCall(N_U, MAX_FIELDS_PER_TYPE + 1, 1,
               [i \in 1..(2 * (MAX_FIELDS_PER_TYPE + 1)) |-> IF i % 2 = 1 THEN F_K ELSE INT_T]),
      TypeCall(N_U, 1, 0, << F_K, INT_T >>),                                \* pk below 1
      TypeCall(N_U, 1, 2, << F_K, INT_T >>),                                \* pk above num_fields
      TypeCall(N_U, 2, 1, << F_K, INT_T >>),                                \* too few pairs
      TypeCall(N_U, 1, 1, << F_K, INT_T, F_V, STR_T >>),                    \* too many pairs
      TypeCall(N_U, 1, 1, << F_K, << 102 >> >>),                            \* kind "f"
      TypeCall(N_U, 1, 1, << V_BAD, INT_T >>),                              \* bad field name
      TypeCall(N_U, 1, 1, << [i \in 1..(MAX_FIELD_NAME_LENGTH + 1) |-> 97], INT_T >>),
      TypeCall(N_U, 1, 1, << F_K >>) }                                      \* odd length

\* The calls of Spec: the two ordinary types, a second schema for T, and
\* three failing calls.
TypeCalls ==
    { TypeCall(N_T, 1, 1, << F_K, INT_T >>),
      TypeCall(N_T, 2, 2, << F_V, STR_T, F_K, INT_T >>),
      TypeCall(N_S, 1, 1, << F_K, STR_T >>),
      TypeCall(V_7, 1, 1, << F_K, INT_T >>),
      TypeCall(N_U, 1, 2, << F_K, INT_T >>),
      TypeCall(N_U, 1, 1, << F_K >>) }

RecordTypes == { N_T, N_S }

ValueLists ==
    { << V_7 >>, << V_07 >>, << V_BIG >>, << V_A >>, << V_BAD >>, << V_A, V_7 >>, << >> }

Keys == { V_7, V_07, V_A }

Init ==
    /\ catalog = << >>
    /\ files = << >>
    /\ result = [op |-> "init", args |-> << >>, out |-> Ok(TRUE)]
    /\ live = << >>
    /\ nops = 0
    /\ batch = NoBatch
    /\ inflight = NoCalls

Changed(cat, fs) == cat # catalog \/ fs # files
Count(cat, fs) == IF Changed(cat, fs) THEN nops + 1 ELSE nops

\* archive.create_type(type_name, num_fields, primary_key_order, field_specs)
\* The step of a create_type call that gives r = [out, catalog, files]
CreateTypeGives(c, r) ==
    /\ Count(r.catalog, r.files) <= MaxOps
    /\ catalog' = r.catalog
    /\ files' = r.files
    /\ result' = [op |-> "create_type", args |-> c, out |-> r.out]
    /\ nops' = Count(r.catalog, r.files)
    /\ UNCHANGED << live, batch, inflight >>

CreateType(c) ==
    CreateTypeGives(c, create_type(catalog, files, c.type_name, c.num_fields,
                                   c.primary_key_order, c.field_specs))

\* The key a created record is known by: the primary-key value passed in
PassedKey(type_name, values) == _find_primary_key_value(catalog, type_name, values).v

LiveAfterCreate(type_name, values) ==
    LET k == << type_name, PassedKey(type_name, values) >>
    IN  [q \in (DOMAIN live) \cup {k} |-> IF q = k THEN values ELSE live[q]]

LiveAfterDelete(type_name, primary_key) ==
    [q \in (DOMAIN live) \ {<< type_name, primary_key >>} |-> live[q]]

\* archive.create_record(type_name, values)
\* The step of a create_record call that gives r = [out, files]
CreateRecordGives(type_name, values, r) ==
    /\ Count(catalog, r.files) <= MaxOps
    /\ files' = r.files
    /\ result' = [op |-> "create_record",
                  args |-> [type_name |-> type_name, values |-> values], out |-> r.out]
    /\ live' = IF r.out = Ok(TRUE) THEN LiveAfterCreate(type_name, values) ELSE live
    /\ nops' = Count(catalog, r.files)
    /\ UNCHANGED << catalog, batch, inflight >>

CreateRecord(type_name, values) ==
    CreateRecordGives(type_name, values, create_record(catalog, files, type_name, values))

\* archive.search_record(type_name, primary_key)
SearchRecord(type_name, primary_key) ==
    /\ result' = [op |-> "search_record",
                  args |-> [type_name |-> type_name, primary_key |-> primary_key],
                  out |-> search_record(catalog, files, type_name, primary_key)]
    /\ UNCHANGED << catalog, files, live, nops, batch, inflight >>

\* archive.delete_record(type_name, primary_key)
\* The step of a delete_record call that gives r = [out, files]
DeleteRecordGives(type_name, primary_key, r) ==
    /\ Count(catalog, r.files) <= MaxOps
    /\ files' = r.files
    /\ result' = [op |-> "delete_record",
                  args |-> [type_name |-> type_name, primary_key |-> primary_key],
                  out |-> r.out]
    /\ live' = IF r.out = Ok(TRUE) THEN LiveAfterDelete(type_name, primary_key) ELSE live
    /\ nops' = Count(catalog, r.files)
    /\ UNCHANGED << catalog, batch, inflight >>

DeleteRecord(type_name, primary_key) ==
    DeleteRecordGives(type_name, primary_key,
                      delete_record(catalog, files, type_name, primary_key))

Next ==
    \/ \E c \in TypeCalls : CreateType(c)
    \/ \E type_name \in RecordTypes, values \in ValueLists : CreateRecord(type_name, values)
    \/ \E type_name \in RecordTypes, primary_key \in Keys : SearchRecord(type_name, primary_key)
    \/ \E type_name \in RecordTypes, primary_key \in Keys : DeleteRecord(type_name, primary_key)

Spec == Init /\ [][Next]_vars

\* ------------------------------------------------------------------------
\* The engine under every kind of create_type call, with records of the type
\* named "catalog", whose data file is the catalog file
V_1 == << 49 >>                                              \* "1"

NextTypes ==
    \/ \E c \in GoodTypeCalls \cup BadTypeCalls : CreateType(c)
    \/ CreateRecord(N_CATALOG, << V_1 >>)
    \/ SearchRecord(N_CATALOG, V_1)
    \/ DeleteRecord(N_CATALOG, V_1)

SpecTypes == Init /\ [][NextTypes]_vars

\* ------------------------------------------------------------------------
\* The record codec on its own: a schema and a values list the validators
\* accept are drawn, then encoded, then decoded.
CodecInts == { V_7, V_07, V_NEG, V_BIG,
               << 45, 50, 49, 52, 55, 52, 56, 51, 54, 52, 56 >>,     \* "-2147483648"
               << 32, 49, 95, 48, 10 >>,                             \* " 1_0\n"
               << 43, 53 >>,                                         \* "+5"
               << 1635 >>,                                           \* "\u0663", the digit 3
               << 160, 55 >> }                                       \* "\xa07"

CodecStrs == { V_A, << 66, 111, 98 >>,                               \* "Bob"
               << 66, 111, 98, 10 >>,                                \* "Bob\n"
               [i \in 1..(MAX_STRING_LENGTH - 1) |-> 97],            \* "a" * 99
               V_LONG }

CodecSchemas ==
    { << << F_K, INT_T >> >>,
      << << F_K, STR_T >> >>,
      << << F_V, STR_T >>, << F_K, INT_T >> >>,
      << << F_K, INT_T >>, << F_V, STR_T >> >> }

CodecValues(fields) ==
    { values \in UNION { [1..Len(fields) -> CodecInts \cup CodecStrs] } :
        \A i \in 1..Len(fields) :
            IF fields[i][2] = INT_T THEN values[i] \in CodecInts ELSE values[i] \in CodecStrs }

InitCodec ==
    /\ \E fields \in CodecSchemas :
          /\ catalog = << [name |-> N_T, fields |-> fields, primary_key_order |-> 1,
                           record_size |-> _calculate_record_size(fields)] >>
          /\ \E values \in CodecValues(fields) :
                result = [op |-> "values", args |-> values, out |-> Ok(values)]
    /\ files = << >>
    /\ live = << >>
    /\ nops = 0
    /\ batch = NoBatch
    /\ inflight = NoCalls

\* self._serialize_record(type_name, values)
Encode ==
    /\ result.op = "values"
    /\ result' = [op |-> "_serialize_record", args |-> result.args,
                  out |-> _serialize_record(catalog, N_T, result.args)]
    /\ UNCHANGED << catalog, files, live, nops, batch, inflight >>

\* self._deserialize_record(type_name, record_data)
Decode ==
    /\ result.op = "_serialize_record"
    /\ result.out.ok
    /\ result' = [op |-> "_deserialize_record", args |-> result.args,
                  out |-> _deserialize_record(catalog, N_T, result.out.v)]
    /\ UNCHANGED << catalog, files, live, nops, batch, inflight >>

NextCodec == Encode \/ Decode

SpecCodec == InitCodec /\ [][NextCodec]_vars

\* ------------------------------------------------------------------------
\* A new engine on a catalog file that was saved and then damaged
RECURSIVE CatalogAfter(_)
\* The catalog after the create_type calls of a sequence, from an empty one
CatalogAfter(calls) ==
    IF calls = << >> THEN << >>
    ELSE create_type(CatalogAfter(SubSeq(calls, 1, Len(calls) - 1)), << >>,
                     calls[Len(calls)].type_name, calls[Len(calls)].num_fields,
                     calls[Len(calls)].primary_key_order, calls[Len(calls)].field_specs).catalog

\* The catalogs whose files are damaged
SavedCatalogs ==
    { CatalogAfter(<< TypeCall(N_T, 1, 1, << F_K, INT_T >>) >>),
      CatalogAfter(<< TypeCall(N_T, 1, 1, << F_K, INT_T >>),
                      TypeCall(N_S, 1, 1, << F_K, STR_T >>) >>),
      CatalogAfter(<< TypeCall(N_S, 1, 1, << F_K, STR_T >>),
                      TypeCall(N_T, 2, 2, << F_V, STR_T, F_K, INT_T >>) >>),
      CatalogAfter(<< TypeCall(N_T, 2, 2, << F_V, STR_T, F_K, INT_T >>),
                      TypeCall(N_CATALOG, 1, 1, << F_K, INT_T >>),
                      TypeCall(N_S, 1, 1, << F_K, STR_T >>) >>) }

\* The positions (from 1) of the first byte of the first type's name length
\* and of its first field's name length, and the bytes put there
LengthPositions == { 1, 14 }
LengthBytes == { 0, 2, 100 }

InitLoad ==
    /\ \E cat \in SavedCatalogs :
          /\ files = _save_catalog(cat, << >>)
          /\ result = [op |-> "_save_catalog", args |-> cat, out |-> Ok(TRUE)]
    /\ catalog = << >>
    /\ live = << >>
    /\ nops = 0
    /\ batch = NoBatch
    /\ inflight = NoCalls

\* The catalog file loses its end: n bytes are left
Truncate(n) ==
    /\ result.op = "_save_catalog"
    /\ files' = WriteFile(files, catalog_file, Slice(files[catalog_file], 0, n))
    /\ result' = [op |-> "truncate", args |-> result.args, out |-> Ok(TRUE)]
    /\ UNCHANGED << catalog, live, nops, batch, inflight >>

\* A length field of the catalog file gets another value
Overwrite(i, b) ==
    /\ result.op = "_save_catalog"
    /\ files[catalog_file][i] # b
    /\ files' = WriteFile(files, catalog_file, [files[catalog_file] EXCEPT ![i] = b])
    /\ result' = [op |-> "overwrite", args |-> result.args, out |-> Ok(TRUE)]
    /\ UNCHANGED << catalog, live, nops, batch, inflight >>

\* archive = DuneArchive()
Load ==
    /\ result.op # "__init__"
    /\ catalog' = _load_catalog(files)
    /\ result' = [op |-> "__init__", args |-> result.args, out |-> Ok(TRUE)]
    /\ UNCHANGED << files, live, nops, batch, inflight >>

NextLoad ==
    \/ \E n \in 0..(Len(files[catalog_file]) - 1) : Truncate(n)
    \/ \E i \in LengthPositions, b \in LengthBytes : Overwrite(i, b)
    \/ Load

SpecLoad == InitLoad /\ [][NextLoad]_vars

\* ------------------------------------------------------------------------
\* main(): the batch interpreter
\* str.split(): the maximal runs of characters that are no white space
RECURSIVE SplitFrom(_, _, _, _)
SplitFrom(s, i, word, parts) ==
    IF i > Len(s) THEN (IF word = << >> THEN parts ELSE Append(parts, word))
    ELSE IF IsSpace(s[i])
    THEN SplitFrom(s, i + 1, << >>, IF word = << >> THEN parts ELSE Append(parts, word))
    ELSE SplitFrom(s, i + 1, Append(word, s[i]), parts)

split(s) == SplitFrom(s, 1, << >>, << >>)

\* ' '.join(list)
RECURSIVE join(_)
join(list) ==
    IF list = << >> THEN << >>
    ELSE IF Len(list) = 1 THEN list[1]
    ELSE list[1] \o << 32 >> \o join(Tail(list))

\* The value of a parsed integer of at most nine digits.  main() compares
\* num_fields and primary_key_order with counts and limits far below 10^9 and
\* does nothing else with them, so that a number of ten digits or more stands
\* at 10^9 of its sign: every comparison gives what the number itself gives.
Bounded(mag) == IF Len(mag) > 9 THEN 1000000000 ELSE DecValue(mag, 1, 0)

IntValue(n) == IF n.neg THEN 0 - Bounded(n.mag) ELSE Bounded(n.mag)

W_CREATE == << 99, 114, 101, 97, 116, 101 >>   \* "create"
W_TYPE == << 116, 121, 112, 101 >>   \* "type"
W_RECORD == << 114, 101, 99, 111, 114, 100 >>   \* "record"
W_SEARCH == << 115, 101, 97, 114, 99, 104 >>   \* "search"
W_DELETE == << 100, 101, 108, 101, 116, 101 >>   \* "delete"

\* What a line does: the catalog and files after it, the row it appends to
\* log.csv (<< line, success >>, or None), the line it appends to
\* output.txt (or None), and out: Ok, or the exception that leaves the loop.
Logged(cat, fs, line, success) ==
    [out |-> Ok(success), catalog |-> cat, files |-> fs,
     row |-> Some(<< line, success >>), found |-> None]

Escaped(cat, fs, exc) ==
    [out |-> exc, catalog |-> cat, files |-> fs, row |-> None, found |-> None]

\* success = archive.create_type(...) inside try ... except (ValueError, IndexError)
CreateTypeLogged(cat, fs, line, r) ==
    IF r.out.ok THEN Logged(r.catalog, r.files, line, r.out.v)
    ELSE IF r.out.exc \in { "ValueError", "IndexError", "UnicodeDecodeError",
                            "UnicodeEncodeError" }
    THEN Logged(r.catalog, r.files, line, FALSE)
    ELSE Escaped(cat, fs, r.out)

CreateTypeParsed(cat, fs, line, type_name, num_fields, primary_key_order, field_specs) ==
    IF Len(field_specs) # 2 * num_fields THEN Logged(cat, fs, line, FALSE)
    ELSE CreateTypeLogged(cat, fs, line,
                          create_type(cat, fs, type_name, num_fields, primary_key_order,
                                      field_specs))

CreateTypeLine(cat, fs, line, parts) ==
    IF Len(parts) < 5 THEN Logged(cat, fs, line, FALSE)
    ELSE IF ~IntParses(parts[4]) \/ ~IntParses(parts[5]) THEN Logged(cat, fs, line, FALSE)
    ELSE CreateTypeParsed(cat, fs, line, parts[3], IntValue(int(parts[4])),
                          IntValue(int(parts[5])), SubSeq(parts, 6, Len(parts)))

\* success = archive.create_record(...) or archive.delete_record(...); the log row
RecordCallLogged(cat, fs, line, r) ==
    IF r.out.ok THEN Logged(cat, r.files, line, r.out.v) ELSE Escaped(cat, fs, r.out)

CreateRecordLine(cat, fs, line, parts) ==
    IF Len(parts) < 3 THEN Logged(cat, fs, line, FALSE)
    ELSE IF ~InCatalog(cat, parts[3]) THEN Logged(cat, fs, line, FALSE)
    ELSE IF Len(parts) - 3 # Len(TypeInfo(cat, parts[3]).fields) THEN Logged(cat, fs, line, FALSE)
    ELSE RecordCallLogged(cat, fs, line,
                          create_record(cat, fs, parts[3], SubSeq(parts, 4, Len(parts))))

\* result = archive.search_record(type_name, primary_key); output.txt, the log row
SearchLogged(cat, fs, line, r) ==
    IF ~r.ok THEN Escaped(cat, fs, r)
    ELSE IF r.v = None THEN Logged(cat, fs, line, FALSE)
    ELSE [out |-> Ok(TRUE), catalog |-> cat, files |-> fs,
          row |-> Some(<< line, TRUE >>), found |-> Some(join(r.v[1]))]

SearchLine(cat, fs, line, parts) ==
    IF Len(parts) # 4 THEN Logged(cat, fs, line, FALSE)
    ELSE IF ~InCatalog(cat, parts[3]) THEN Logged(cat, fs, line, FALSE)
    ELSE SearchLogged(cat, fs, line, search_record(cat, fs, parts[3], parts[4]))

DeleteLine(cat, fs, line, parts) ==
    IF Len(parts) # 4 THEN Logged(cat, fs, line, FALSE)
    ELSE IF ~InCatalog(cat, parts[3]) THEN Logged(cat, fs, line, FALSE)
    ELSE RecordCallLogged(cat, fs, line, delete_record(cat, fs, parts[3], parts[4]))

\* The body of the loop for a line that is not empty, parts = line.split()
Command(cat, fs, line, parts) ==
    IF Len(parts) < 2 THEN Logged(cat, fs, line, FALSE)
    ELSE IF parts[1] = W_CREATE
    THEN IF parts[2] = W_TYPE THEN CreateTypeLine(cat, fs, line, parts)
         ELSE IF parts[2] = W_RECORD THEN CreateRecordLine(cat, fs, line, parts)
         ELSE Logged(cat, fs, line, FALSE)
    ELSE IF parts[1] = W_SEARCH /\ parts[2] = W_RECORD THEN SearchLine(cat, fs, line, parts)
    ELSE IF parts[1] = W_DELETE /\ parts[2] = W_RECORD THEN DeleteLine(cat, fs, line, parts)
    ELSE Logged(cat, fs, line, FALSE)

\* The lines of the input files

L_TYPE_T == << 99, 114, 101, 97, 116, 101, 32, 116, 121, 112, 101, 32, 84, 32, 49, 32, 49, 32, 107, 32, 105, 110, 116 >>   \* "create type T 1 1 k int"
L_TYPE_X == << 99, 114, 101, 97, 116, 101, 32, 116, 121, 112, 101, 32, 85, 32, 120, 32, 49, 32, 107, 32, 105, 110, 116 >>   \* "create type U x 1 k int"
L_TYPE_SHORT == << 99, 114, 101, 97, 116, 101, 32, 116, 121, 112, 101, 32, 85, 32, 49, 32, 49, 32, 107 >>   \* "create type U 1 1 k"
L_CREATE_7 == << 32, 32, 99, 114, 101, 97, 116, 101, 32, 32, 32, 114, 101, 99, 111, 114, 100, 32, 84, 32, 55, 32 >>   \* "  create   record T 7 "
L_CREATE_BIG == << 99, 114, 101, 97, 116, 101, 32, 114, 101, 99, 111, 114, 100, 32, 84, 32, 50, 49, 52, 55, 52, 56, 51, 54, 52, 56 >>   \* "create record T 2147483648"
L_CREATE_NONE == << 99, 114, 101, 97, 116, 101, 32, 114, 101, 99, 111, 114, 100, 32, 84 >>   \* "create record T"
L_SEARCH_7 == << 115, 101, 97, 114, 99, 104, 32, 114, 101, 99, 111, 114, 100, 32, 84, 32, 55 >>   \* "search record T 7"
L_DELETE_7 == << 100, 101, 108, 101, 116, 101, 32, 114, 101, 99, 111, 114, 100, 32, 84, 32, 55 >>   \* "delete record T 7"
L_WORD == << 102, 111, 111 >>   \* "foo"
L_BLANK == << 32, 9 >>   \* " \t"

InputLines ==
    { L_TYPE_T,
      L_TYPE_X,
      L_TYPE_SHORT,
      L_CREATE_7,
      L_CREATE_BIG,
      L_CREATE_NONE,
      L_SEARCH_7,
      L_DELETE_7,
      L_WORD,
      L_BLANK }

\* The longest input file
MaxLines == 3

InputFiles == UNION { [1..n -> InputLines] : n \in 1..MaxLines }

\* main() after archive = DuneArchive() in an empty directory and the
\* clearing of output.txt, before the first line is read
InitBatch ==
    /\ catalog = << >>
    /\ files = << >>
    /\ result = [op |-> "init", args |-> << >>, out |-> Ok(TRUE)]
    /\ live = << >>
    /\ nops = 0
    /\ \E input \in InputFiles :
          batch = [lines |-> input, read |-> 0, log |-> << >>, output |-> << >>,
                   at |-> "running"]
    /\ inflight = NoCalls

\* for line in f: an empty line
SkipLine ==
    /\ batch.at = "running"
    /\ batch.read < Len(batch.lines)
    /\ strip(batch.lines[batch.read + 1]) = << >>
    /\ batch' = [batch EXCEPT !.read = batch.read + 1]
    /\ UNCHANGED << catalog, files, result, live, nops, inflight >>

\* The step of a line that does c
CommandDoes(line, c) ==
    /\ catalog' = c.catalog
    /\ files' = c.files
    /\ result' = [op |-> "main", args |-> line, out |-> c.out]
    /\ batch' = [lines |-> batch.lines,
                 read |-> batch.read + 1,
                 log |-> IF c.row = None THEN batch.log ELSE Append(batch.log, c.row[1]),
                 output |-> IF c.found = None THEN batch.output
                            ELSE Append(batch.output, c.found[1]),
                 at |-> IF c.out.ok THEN "running" ELSE "stopped"]
    /\ UNCHANGED << live, nops, inflight >>

\* for line in f: a command line
CommandLine ==
    /\ batch.at = "running"
    /\ batch.read < Len(batch.lines)
    /\ strip(batch.lines[batch.read + 1]) # << >>
    /\ CommandDoes(strip(batch.lines[batch.read + 1]),
                   Command(catalog, files, strip(batch.lines[batch.read + 1]),
                           split(strip(batch.lines[batch.read + 1]))))

\* The end of the file
EndOfFile ==
    /\ batch.at = "running"
    /\ batch.read = Len(batch.lines)
    /\ batch' = [batch EXCEPT !.at = "done"]
    /\ UNCHANGED << catalog, files, result, live, nops, inflight >>

NextBatch == SkipLine \/ CommandLine \/ EndOfFile

SpecBatch == InitBatch /\ [][NextBatch]_vars

\* ------------------------------------------------------------------------
\* The engine on data files that already hold records
RECURSIVE FilesAfter(_, _, _, _, _)
\* The calls from the i-th on, made on the files `next` that the call before
\* them gave
FilesThen(cat, fs, next, type_name, value_lists, i) ==
    IF next = fs THEN FilesAfter(cat, fs, type_name, value_lists, i)
    ELSE FilesAfter(cat, next, type_name, value_lists, i)

\* The files after the create_record calls of a sequence of values lists,
\* from the i-th on
FilesAfter(cat, fs, type_name, value_lists, i) ==
    IF i > Len(value_lists) THEN fs
    ELSE FilesThen(cat, fs, create_record(cat, fs, type_name, value_lists[i]).files,
                   type_name, value_lists, i + 1)

\* The history of those calls: every one of them returned True
LiveAfter(cat, type_name, value_lists) ==
    [q \in { << type_name, _find_primary_key_value(cat, type_name, value_lists[i]).v >> :
               i \in 1..Len(value_lists) }
       |-> CHOOSE values \in { value_lists[i] : i \in 1..Len(value_lists) } :
              _find_primary_key_value(cat, type_name, values).v = q[2]]

V_B == << 98 >>                                              \* "b"
V_0 == << 48 >>                                              \* "0"
V_10 == << 49, 48 >>                                         \* "10"

\* T with the fields (v str, k int), key k, and the ten records that fill
\* page 0: ("a", "0") .. ("a", "9")
PagesCatalog == CatalogAfter(<< TypeCall(N_T, 2, 2, << F_V, STR_T, F_K, INT_T >>) >>)

PagesRecords == [i \in 1..MAX_RECORDS_PER_PAGE |-> << V_A, << 47 + i >> >>]

PagesValueLists == { << V_A, V_10 >>, << V_B, V_07 >>, << V_A, V_7 >>, << V_B, V_0 >> }

PagesKeys == { V_7, V_07, V_0, V_10 }

InitPages ==
    /\ catalog = PagesCatalog
    /\ files = FilesAfter(PagesCatalog, _save_catalog(PagesCatalog, << >>), N_T, PagesRecords, 1)
    /\ result = [op |-> "create_record",
                 args |-> [type_name |-> N_T, values |-> PagesRecords[Len(PagesRecords)]],
                 out |-> Ok(TRUE)]
    /\ live = LiveAfter(PagesCatalog, N_T, PagesRecords)
    /\ nops = 0
    /\ batch = NoBatch
    /\ inflight = NoCalls

NextPages ==
    \/ \E values \in PagesValueLists : CreateRecord(N_T, values)
    \/ \E primary_key \in PagesKeys : SearchRecord(N_T, primary_key)
    \/ \E primary_key \in PagesKeys : DeleteRecord(N_T, primary_key)

SpecPages == InitPages /\ [][NextPages]_vars

\* W with five str fields, key k, a record of 501 bytes, and eight records
V_X == << 120 >>                                             \* "x"

WideCatalog ==
    CatalogAfter(<< TypeCall(N_W, 5, 1, << F_K, STR_T, F_V, STR_T, F_V, STR_T,
                                          F_V, STR_T, F_V, STR_T >>) >>)

WideValues(c) == << << c >>, V_X, V_X, V_X, V_X >>

\* The keys "a" .. "h"
WideRecords == [i \in 1..8 |-> WideValues(96 + i)]

\* The keys "i", "j", "k"
WideValueLists == { WideValues(105), WideValues(106), WideValues(107) }

\* "a", "i", "j", "z"
WideKeys == { << 97 >>, << 105 >>, << 106 >>, << 122 >> }

InitWide ==
    /\ catalog = WideCatalog
    /\ files = FilesAfter(WideCatalog, _save_catalog(WideCatalog, << >>), N_W, WideRecords, 1)
    /\ result = [op |-> "create_record",
                 args |-> [type_name |-> N_W, values |-> WideRecords[Len(WideRecords)]],
                 out |-> Ok(TRUE)]
    /\ live = LiveAfter(WideCatalog, N_W, WideRecords)
    /\ nops = 0
    /\ batch = NoBatch
    /\ inflight = NoCalls

NextWide ==
    \/ \E values \in WideValueLists : CreateRecord(N_W, values)
    \/ \E primary_key \in WideKeys : SearchRecord(N_W, primary_key)
    \/ \E primary_key \in WideKeys : DeleteRecord(N_W, primary_key)

SpecWide == InitWide /\ [][NextWide]_vars

\* ------------------------------------------------------------------------
\* The calls step by step.  Two processes share nothing but the files, and
\* the code takes no lock: every access of a call to a file is a step of its
\* own, another process may act between any two of them, and the process
\* may stop between any two.  The steps of a call are the _load_page of each
\* page of its scan (lines 314 and 410), the _load_page of each page of the
\* allocation loop (line 323), and in _save_page the test of the file (lines
\* 191 and 196), open(file_path, 'wb') (line 192), the zeros written to the
\* new file (line 193), the zeros appended (lines 199-200) and the write of
\* the page (lines 203-206).  What a call computes between two accesses
\* belongs to the access before it, and what it computes before its first
\* access to that access.  Files are never removed, so that
\* os.path.exists answering True is one step with the access that follows
\* it: the answer is the same at that later moment.
Procs == { 1, 2 }
MaxCalls == 2

\* The pages from TailPage on are read in one step, the pages before it one
\* by one: no data file of these specifications reaches the page TailPage,
\* so that each of those reads gives None whenever it is made.
TailPage == 4

CreateCall(type_name, values) ==
    [op |-> "create_record", args |-> [type_name |-> type_name, values |-> values]]
DeleteCall(type_name, primary_key) ==
    [op |-> "delete_record", args |-> [type_name |-> type_name, primary_key |-> primary_key]]

\* The call before its first access to a file: Some(out) when it returns
\* there (create_record lines 294-311, delete_record lines 399-400), else None
ReturnsAtOnce(call) ==
    IF ~InCatalog(catalog, call.args.type_name) THEN Some(Ok(FALSE))
    ELSE IF call.op = "delete_record" THEN None
    ELSE IF Len(call.args.values) # Len(TypeInfo(catalog, call.args.type_name).fields)
    THEN Some(Ok(FALSE))
    ELSE IF ~ValuesValid(TypeInfo(catalog, call.args.type_name).fields, call.args.values)
    THEN Some(Ok(FALSE))
    ELSE IF ~_find_primary_key_value(catalog, call.args.type_name, call.args.values).ok
    THEN Some(_find_primary_key_value(catalog, call.args.type_name, call.args.values))
    ELSE None

\* The key the call scans the pages for
SoughtKey(call) ==
    IF call.op = "create_record" THEN PassedKey(call.args.type_name, call.args.values)
    ELSE call.args.primary_key

\* The locals of a call that begins: the page_number of its loop, the
\* arguments of its _save_page call once it has made the page, the
\* current_size it has read, the files it began on
NewCall(call, overlapped) ==
    [call |-> call, at |-> "scan", page_number |-> 0, save |-> None, current_size |-> 0,
     before |-> files, written |-> 0, overlapped |-> overlapped]

\* The other calls in flight see one more call begin
Overlapped(calls) == [q \in DOMAIN calls |-> [calls[q] EXCEPT !.overlapped = TRUE]]

\* The process p goes on with the locals c
Goes(calls, p, c) ==
    /\ inflight' = [q \in (DOMAIN calls) \cup {p} |-> IF q = p THEN c ELSE calls[q]]
    /\ UNCHANGED << files, result, live >>

\* The call c of process p returns out without a write
Returns(calls, p, c, out) ==
    /\ inflight' = [q \in (DOMAIN calls) \ {p} |-> calls[q]]
    /\ result' = [op |-> c.call.op, args |-> c.call.args, out |-> out,
                  overlapped |-> c.overlapped]
    /\ UNCHANGED << files, live >>

\* The page is made, r being [out, files, save] of its making: the call is
\* about to call _save_page
Made(calls, p, c, r) ==
    IF ~r.out.ok THEN Returns(calls, p, c, r.out)
    ELSE Goes(calls, p, [c EXCEPT !.at = "save", !.save = Some(r.save)])

\* The scan has read its last page without a match: delete_record returns
\* False, create_record serializes the record and enters its allocation loop
ScanOver(calls, p, c, record_data) ==
    IF c.call.op = "delete_record" THEN Returns(calls, p, c, Ok(FALSE))
    ELSE IF ~record_data.ok THEN Returns(calls, p, c, record_data)
    ELSE Goes(calls, p, [c EXCEPT !.at = "place", !.page_number = 0])

\* The pages read in the step that begins at page_number, and the scan
\* after them, m being what they give: Ok(None), the first match as
\* Ok(<< values, slot, page_number >>), or an exception
LastRead(page_number) ==
    IF page_number >= TailPage THEN MAX_PAGES_PER_FILE - 1 ELSE page_number

Scanned(calls, p, c, m) ==
    IF ~m.ok THEN Returns(calls, p, c, m)
    ELSE IF m.v # None
    THEN IF c.call.op = "create_record" THEN Returns(calls, p, c, Ok(FALSE))
         ELSE Made(calls, p, c,
                   DeleteInPage(files, c.call.args.type_name, m.v[3], m.v[2],
                                TypeInfo(catalog, c.call.args.type_name).record_size,
                                _load_page(files, c.call.args.type_name, m.v[3])))
    ELSE IF LastRead(c.page_number) + 1 < MAX_PAGES_PER_FILE
    THEN Goes(calls, p, [c EXCEPT !.page_number = LastRead(c.page_number) + 1])
    ELSE ScanOver(calls, p, c,
                  IF c.call.op = "create_record"
                  THEN _serialize_record(catalog, c.call.args.type_name, c.call.args.values)
                  ELSE Ok(<< >>))

\* One _load_page of the scan, of _search_record_internal (line 373) in
\* create_record or of delete_record (line 410), and the slots of the page
ScanGives(calls, p, c) ==
    Scanned(calls, p, c,
            ScanUpTo(catalog, files, c.call.args.type_name, SoughtKey(c.call),
                     { page_number \in c.page_number..LastRead(c.page_number) :
                         EndsScan(ScanPage(catalog, files, c.call.args.type_name, page_number,
                                           SoughtKey(c.call))) }))

\* The call begins: a call that reads no file returns at once, another one
\* is in flight from its first _load_page on
Begin(p, call) ==
    /\ p \notin DOMAIN inflight
    /\ IF ReturnsAtOnce(call) # None
       THEN /\ result' = [op |-> call.op, args |-> call.args, out |-> ReturnsAtOnce(call)[1]]
            /\ UNCHANGED << files, live, nops, inflight >>
       ELSE /\ nops < MaxCalls
            /\ nops' = nops + 1
            /\ ScanGives(Overlapped(inflight), p, NewCall(call, inflight # NoCalls))
    /\ UNCHANGED << catalog, batch >>

\* The next _load_page of the scan
Scan(p) ==
    /\ p \in DOMAIN inflight
    /\ inflight[p].at = "scan"
    /\ ScanGives(inflight, p, inflight[p])
    /\ UNCHANGED << catalog, nops, batch >>

\* The allocation loop of create_record, lines 322-360, work being the page
\* it works on after its _load_page: the record goes to the first free slot,
\* or the loop goes on to the next page
Placed(calls, p, c, work) ==
    IF FreeSlots(work[3]) # {}
    THEN Made(calls, p, c,
              PlaceInPage(files, c.call.args.type_name, c.page_number,
                          TypeInfo(catalog, c.call.args.type_name).record_size,
                          _serialize_record(catalog, c.call.args.type_name, c.call.args.values).v,
                          work))
    ELSE IF c.page_number + 1 >= MAX_PAGES_PER_FILE THEN Returns(calls, p, c, Ok(FALSE))
    ELSE Goes(calls, p, [c EXCEPT !.page_number = c.page_number + 1])

Place(p) ==
    /\ p \in DOMAIN inflight
    /\ inflight[p].at = "place"
    /\ Placed(inflight, p, inflight[p],
              WorkPage(_load_page(files, inflight[p].call.args.type_name, inflight[p].page_number),
                       inflight[p].page_number))
    /\ UNCHANGED << catalog, nops, batch >>

\* The call of process p with its position moved
MovedTo(p, at) == [inflight EXCEPT ![p].at = at]

\* The file _save_page writes, and the size it needs
SavePath(c) == _get_data_file_path(c.save[1].type_name)
RequiredSize(c) == (c.save[1].page_number + 1) * PAGE_SIZE

\* _save_page, lines 191 and 196-198: os.path.exists, and os.path.getsize
\* when the file is there
Sized(p, c, current_size) ==
    inflight' = [inflight EXCEPT ![p].current_size = current_size,
                                 ![p].at = IF current_size < RequiredSize(c) THEN "append"
                                           ELSE "write"]

Stat(p) ==
    /\ p \in DOMAIN inflight
    /\ inflight[p].at = "save"
    /\ IF ~Exists(files, SavePath(inflight[p])) THEN inflight' = MovedTo(p, "open")
       ELSE Sized(p, inflight[p], Len(files[SavePath(inflight[p])]))
    /\ UNCHANGED << catalog, files, result, live, nops, batch >>

\* _save_page, line 192: open(file_path, 'wb') makes the file, or cuts it to
\* nothing when another process has made it since line 191
OpenNew(p) ==
    /\ p \in DOMAIN inflight
    /\ inflight[p].at = "open"
    /\ files' = WriteFile(files, SavePath(inflight[p]), << >>)
    /\ inflight' = MovedTo(p, "fill")
    /\ UNCHANGED << catalog, result, live, nops, batch >>

\* f.write(data) at the start of a file opened with 'wb'
WrittenFromStart(bytes, data) ==
    IF Len(bytes) <= Len(data) THEN data ELSE WriteAt(bytes, 0, data)

\* _save_page, line 193: the new file is filled with the zeros of its pages
Fill(p) ==
    /\ p \in DOMAIN inflight
    /\ inflight[p].at = "fill"
    /\ files' = WriteFile(files, SavePath(inflight[p]),
                          WrittenFromStart(files[SavePath(inflight[p])],
                                           Zeros(RequiredSize(inflight[p]))))
    /\ inflight' = MovedTo(p, "write")
    /\ UNCHANGED << catalog, result, live, nops, batch >>

\* _save_page, lines 199-200: required_size - current_size zeros, of the
\* size read at line 196, go to the end the file has now (mode 'ab')
Extend(p) ==
    /\ p \in DOMAIN inflight
    /\ inflight[p].at = "append"
    /\ files' = WriteFile(files, SavePath(inflight[p]),
                          files[SavePath(inflight[p])]
                          \o Zeros(RequiredSize(inflight[p]) - inflight[p].current_size))
    /\ inflight' = MovedTo(p, "write")
    /\ UNCHANGED << catalog, result, live, nops, batch >>

\* The page written in two writes, the header and one more byte first
PageWrites_in_two(page_data) ==
    << << 0, SubSeq(page_data, 1, 13) >>, << 13, SubSeq(page_data, 14, Len(page_data)) >> >>

\* f.write(page_data), line 206: the writes that reach the file, in order, as
\* << offset in the page, bytes >>: one write of the whole page
PageWrites(page_data) == << << 0, page_data >> >>

\* The process p without its call, which has returned or stopped
Without(p) == [q \in (DOMAIN inflight) \ {p} |-> inflight[q]]

\* The files after the write w of the call c
AfterWrite(c, w) ==
    WriteFile(files, SavePath(c),
              WriteAt(files[SavePath(c)], c.save[1].page_number * PAGE_SIZE + w[1], w[2]))

LiveAfterCall(call) ==
    IF call.op = "create_record" THEN LiveAfterCreate(call.args.type_name, call.args.values)
    ELSE LiveAfterDelete(call.args.type_name, call.args.primary_key)

\* _save_page, lines 203-206: one write of the page; after the last one the
\* call returns True
WriteGives(p, c, writes) ==
    /\ files' = AfterWrite(c, writes[c.written + 1])
    /\ IF c.written + 1 < Len(writes)
       THEN /\ inflight' = [inflight EXCEPT ![p].written = c.written + 1]
            /\ UNCHANGED << result, live >>
       ELSE /\ inflight' = Without(p)
            /\ result' = [op |-> c.call.op, args |-> c.call.args, out |-> Ok(TRUE),
                          overlapped |-> c.overlapped]
            /\ live' = LiveAfterCall(c.call)
    /\ UNCHANGED << catalog, nops, batch >>

Write(p) ==
    /\ p \in DOMAIN inflight
    /\ inflight[p].at = "write"
    /\ WriteGives(p, inflight[p], PageWrites(inflight[p].save[1].page_data))

\* The process stops inside the call: nothing more of the call happens
Stop(p) ==
    /\ p \in DOMAIN inflight
    /\ inflight' = Without(p)
    /\ result' = [op |-> "stopped", args |-> inflight[p], out |-> Ok(None)]
    /\ UNCHANGED << catalog, files, live, nops, batch >>

\* The states the stepwise calls start from: the type T of the pages above
\* with no data file, with two records, or with a full page 0
StepsRecords == { << >>, SubSeq(PagesRecords, 1, 2), PagesRecords }

StepsCalls ==
    { CreateCall(N_T, << V_A, V_10 >>), CreateCall(N_T, << V_B, V_0 >>),
      DeleteCall(N_T, V_0), DeleteCall(N_T, V_10) }

InitSteps ==
    /\ catalog = PagesCatalog
    /\ \E records \in StepsRecords :
           /\ files = FilesAfter(PagesCatalog, _save_catalog(PagesCatalog, << >>), N_T, records, 1)
           /\ live = LiveAfter(PagesCatalog, N_T, records)
    /\ result = [op |-> "init", args |-> << >>, out |-> Ok(TRUE)]
    /\ nops = 0
    /\ batch = NoBatch
    /\ inflight = NoCalls

\* One process, which may stop inside a call and then goes on with new calls
NextCrash ==
    \/ \E call \in StepsCalls : Begin(1, call)
    \/ Scan(1)
    \/ Place(1)
    \/ Stat(1)
    \/ OpenNew(1)
    \/ Fill(1)
    \/ Extend(1)
    \/ Write(1)
    \/ Stop(1)

SpecCrash == InitSteps /\ [][NextCrash]_vars

\* Two processes on the same files, each with its own engine on the same
\* catalog, their steps interleaved in any order
NextRace ==
    \/ \E p \in Procs, call \in StepsCalls : Begin(p, call)
    \/ \E p \in Procs : Scan(p)
    \/ \E p \in Procs : Place(p)
    \/ \E p \in Procs : Stat(p)
    \/ \E p \in Procs : OpenNew(p)
    \/ \E p \in Procs : Fill(p)
    \/ \E p \in Procs : Extend(p)
    \/ \E p \in Procs : Write(p)

SpecRace == InitSteps /\ [][NextRace]_vars

\* ------------------------------------------------------------------------
\* Claims

\* C1: each type's data file holds at most one valid record per primary-key
\* value: two valid records of a type with the same key are the same slot.
C1_OneRecordPerKey ==
    \A type_name \in CatalogNames(catalog) :
        \A r1, r2 \in StoredRecords(catalog, files, type_name) :
            KeyOf(catalog, type_name, r1[3]) = KeyOf(catalog, type_name, r2[3]) => r1 = r2

\* C2: the values of a create_record that returned True are what
\* search_record returns for the key that was passed, until a delete_record
\* of that key returns True.
C2_CreatedIsFound ==
    /\ \A k \in DOMAIN live :
          search_record(catalog, files, k[1], k[2]) = Ok(Some(live[k]))
    /\ (result.op = "delete_record" /\ result.out = Ok(TRUE)) =>
          search_record(catalog, files, result.args.type_name, result.args.primary_key)
             = Ok(None)

\* The values lists of the inputs that create_record accepts for a type
\* (arity and validators) and whose primary-key value is primary_key
AcceptedWithKey(type_name, primary_key) ==
    { values \in ValueLists :
        /\ Len(values) = Len(TypeInfo(catalog, type_name).fields)
        /\ ValuesValid(TypeInfo(catalog, type_name).fields, values)
        /\ KeyOf(catalog, type_name, values) = primary_key }

\* C3: after delete_record(T, k) has returned True, search_record(T, k)
\* returns absent and a create_record on T with key k returns True.
C3_DeletedKeyIsFree ==
    (result.op = "delete_record" /\ result.out = Ok(TRUE)) =>
        /\ search_record(catalog, files, result.args.type_name, result.args.primary_key)
              = Ok(None)
        /\ \A values \in AcceptedWithKey(result.args.type_name, result.args.primary_key) :
              create_record(catalog, files, result.args.type_name, values).out = Ok(TRUE)

\* The bitmaps of pages 0..99 of a type's file; a page that is not there
\* yet has every slot free.
PageBitmap(type_name, page_number) ==
    LET page == _load_page(files, type_name, page_number)
    IN  IF page[1] = None THEN 0 ELSE page[3]

IsFull(type_name) ==
    \A page_number \in 0..(MAX_PAGES_PER_FILE - 1) :
        FreeSlots(PageBitmap(type_name, page_number)) = {}

\* The kind of a type's primary-key field, and equality of two key values of
\* that kind: as integers, or as strings
KeyKind(type_name) ==
    LET type_info == TypeInfo(catalog, type_name)
    IN  type_info.fields[type_info.primary_key_order][2]

SameKey(kind, a, b) == IF kind = INT_T THEN int(a) = int(b) ELSE a = b

\* C4: create_record on a type whose 100 pages are full returns False and
\* writes nothing, and a create_record with valid values whose key no valid
\* record has returns True while a slot is free.  Stated of the state after
\* any call: of every values list the next call could pass.
C4_FailsOnlyWhenFull ==
    \A type_name \in CatalogNames(catalog) :
        \A values \in ValueLists :
            LET r == create_record(catalog, files, type_name, values)
                fields == TypeInfo(catalog, type_name).fields
            IN  /\ IsFull(type_name) => r.out = Ok(FALSE) /\ r.files = files
                /\ ( /\ Len(values) = Len(fields)
                     /\ ValuesValid(fields, values)
                     /\ \A rec \in StoredRecords(catalog, files, type_name) :
                           ~SameKey(KeyKind(type_name), KeyOf(catalog, type_name, rec[3]),
                                    KeyOf(catalog, type_name, values))
                     /\ ~IsFull(type_name) )
                   => r.out = Ok(TRUE)

\* C5: the 10 slots of every type in the catalog lie inside the page.
C5_SlotsInsidePage ==
    \A i \in 1..Len(catalog) :
        12 + MAX_RECORDS_PER_PAGE * catalog[i].record_size <= PAGE_SIZE

\* C6: decoding the encoding of a values list the validators accept gives
\* the values list back, string for string.
C6_DecodeInvertsEncode ==
    result.op = "_deserialize_record" => result.out = Ok(Some(result.args))

\* C7: every call ends by returning; none ends by raising.
C7_EveryCallReturns == result.out.ok

\* The preconditions of create_type, each stated of the call and of the
\* catalog before it
PreconditionsHold(cat, c) ==
    /\ c.type_name \notin CatalogNames(cat)
    /\ _is_valid_name(c.type_name)
    /\ Len(c.type_name) <= MAX_TYPE_NAME_LENGTH
    /\ c.num_fields <= MAX_FIELDS_PER_TYPE
    /\ 1 <= c.primary_key_order
    /\ c.primary_key_order <= c.num_fields
    /\ Len(c.field_specs) = 2 * c.num_fields
    /\ \A i \in 1..c.num_fields :
          /\ _is_valid_name(c.field_specs[2 * i - 1])
          /\ Len(c.field_specs[2 * i - 1]) <= MAX_FIELD_NAME_LENGTH
          /\ c.field_specs[2 * i] \in { INT_T, STR_T }

C9_ExistingNameIsRejected ==
    [][ \A i \in 1..Len(catalog) :
          /\ Len(catalog') >= i
          /\ catalog'[i] = catalog[i]
          /\ (result'.op = "create_type" /\ result'.args.type_name = catalog[i].name)
             => result'.out = Ok(FALSE)
      ]_vars

\* A create_type call with a held name and another schema has returned False.
C9_Witness ==
    /\ result.op = "create_type"
    /\ result.out = Ok(FALSE)
    /\ InCatalog(catalog, result.args.type_name)
    /\ PreconditionsHold(<< >>, result.args)
    /\ Len(TypeInfo(catalog, result.args.type_name).fields) # result.args.num_fields

\* The catalog as the set of its entries
Entries(cat) == { cat[i] : i \in 1..Len(cat) }

\* C10: the catalog file decodes to the catalog in memory: a new engine
\* loads the same type names with the same fields, primary-key index and
\* record_size.
C10_FileDecodesToCatalog == Entries(_load_catalog(files)) = Entries(catalog)

\* A catalog file is well formed when it is the encoding of the catalog
\* that it loads as.
WellFormed(data) ==
    CatalogBytes(_load_catalog(WriteFile(<< >>, catalog_file, data))) = data

\* C11: a new engine on a malformed catalog file (cut at any byte, or with
\* a length field that does not fit) has an empty catalog.
C11_MalformedLoadsEmpty ==
    (result.op = "__init__" /\ ~WellFormed(files[catalog_file])) => catalog = << >>

\* The lines of the input file that are not empty, stripped, in order
RECURSIVE CommandLines(_)
CommandLines(lines) ==
    IF lines = << >> THEN << >>
    ELSE IF strip(Head(lines)) = << >> THEN CommandLines(Tail(lines))
    ELSE << strip(Head(lines)) >> \o CommandLines(Tail(lines))

\* C12: when main() has ended, log.csv holds exactly one row for each
\* non-empty line of the input file, in the order of the lines.
C12_OneRowPerLine ==
    batch.at \in { "done", "stopped" } =>
        [i \in 1..Len(batch.log) |-> batch.log[i][1]] = CommandLines(batch.lines)

\* The bitmap and the record count of a page of a type's file as stored in
\* fs; a page that is not on disk is empty.
HeaderBitmap(fs, type_name, page_number) ==
    LET page == _load_page(fs, type_name, page_number)
    IN  IF page[1] = None THEN 0 ELSE page[3]

HeaderCount(fs, type_name, page_number) ==
    LET page == _load_page(fs, type_name, page_number)
    IN  IF page[1] = None THEN 0 ELSE page[2]

HasUnsetBit(bitmap) == \E i \in 0..(MAX_RECORDS_PER_PAGE - 1) : ~BitIsSet(bitmap, i)

\* The page p and slot s of the first fit in fs
IsFirstFit(fs, type_name, p, s) ==
    /\ ~BitIsSet(HeaderBitmap(fs, type_name, p), s)
    /\ \A i \in 0..(s - 1) : BitIsSet(HeaderBitmap(fs, type_name, p), i)
    /\ \A q \in 0..(p - 1) : ~HasUnsetBit(HeaderBitmap(fs, type_name, q))

\* C13: a create_record that returns True sets, in the lowest page of 0..99
\* with an unset bit among bits 0..9, exactly the lowest unset bit, and
\* increases the record count of that page by 1.
C13_FirstFit ==
    [][ (result'.op = "create_record" /\ result'.out = Ok(TRUE)) =>
          \E p \in 0..(MAX_PAGES_PER_FILE - 1), s \in 0..(MAX_RECORDS_PER_PAGE - 1) :
              /\ IsFirstFit(files, result'.args.type_name, p, s)
              /\ HeaderBitmap(files', result'.args.type_name, p)
                    = HeaderBitmap(files, result'.args.type_name, p) + 2 ^ s
              /\ HeaderCount(files', result'.args.type_name, p)
                    = HeaderCount(files, result'.args.type_name, p) + 1
      ]_vars

\* After three calls that changed T's file, the last one a create_record
\* that returned True, page 0 is full and page 1 holds one record: a record
\* went to page 1 while page 0 was full, or to a slot of page 0 that a
\* delete_record had freed.
C13_Witness ==
    /\ result.op = "create_record"
    /\ result.out = Ok(TRUE)
    /\ HeaderCount(files, N_T, 1) = 1
    /\ HeaderCount(files, N_T, 0) = MAX_RECORDS_PER_PAGE
    /\ nops = 3

\* The number of set bits among bits 0..9 of a bitmap
PopCount(bitmap) == Cardinality({ i \in 0..(MAX_RECORDS_PER_PAGE - 1) : BitIsSet(bitmap, i) })

\* The header (page_number, record_count, bitmap) at position page_number of a
\* file keeps the header invariants
HeaderIsSound(header, page_number) ==
    /\ header[1] = page_number
    /\ header[2] \in 0..MAX_RECORDS_PER_PAGE
    /\ header[2] = PopCount(header[3])
    /\ header[3] < 2 ^ MAX_RECORDS_PER_PAGE

\* The pages of a type's file that _load_page finds on disk
PagesOnDisk(fs, type_name) ==
    { p \in 0..(MAX_PAGES_PER_FILE - 1) : _load_page(fs, type_name, p)[1] # None }

\* C14: in every reachable state, every page on disk of the file of every
\* type of the catalog has a header whose record_count is the number of set
\* bits among bits 0..9 of its bitmap and lies in 0..10, whose bitmap has no
\* bit set at position 10 or above, and whose page_number is the page's
\* position in the file.
C14_HeaderInvariant ==
    \A type_name \in CatalogNames(catalog) :
        \A p \in PagesOnDisk(files, type_name) :
            HeaderIsSound(_parse_page_header(_load_page(files, type_name, p)[1][1]), p)

\* record_data[:1] of the slot of a page, as _deserialize_record reads it
ValidityBytes(page_data, record_size, slot) ==
    Slice(page_data, 12 + slot * record_size,
          12 + slot * record_size + 1)

\* C15: in every reachable state, for every page on disk of every type of the
\* catalog and every slot 0..9, the bitmap bit of the slot is set if and only
\* if the validity byte of the slot, at offset 12 + slot * record_size of the
\* page, is 1.
C15_BitmapValidityLockstep ==
    \A type_name \in CatalogNames(catalog) :
        \A p \in PagesOnDisk(files, type_name) :
            \A slot \in 0..(MAX_RECORDS_PER_PAGE - 1) :
                BitIsSet(_load_page(files, type_name, p)[3], slot)
                <=> ValidityBytes(_load_page(files, type_name, p)[1][1],
                                  TypeInfo(catalog, type_name).record_size, slot) = << 1 >>

\* The bytes of a type's file after the delete of the record of slot s of page
\* p and nothing else: the slot's validity byte 0, the page's header with the
\* slot's bit cleared and the record count decreased by 1
DeletedBytes(data, p, s, record_size, header) ==
    WriteAt(WriteAt(data, p * PAGE_SIZE + 12 + s * record_size, << 0 >>),
            p * PAGE_SIZE,
            _create_page_header(p, header[2] - 1, header[3] - 2 ^ s).v)

\* Slot s of page p of the type's file holds a valid record of that key, its
\* bit is set, and files2 is files with that record deleted and nothing else
\* changed
DeletesOnly(cat, fs, fs2, type_name, primary_key, p, s) ==
    /\ _load_page(fs, type_name, p)[1] # None
    /\ BitIsSet(_load_page(fs, type_name, p)[3], s)
    /\ MatchSlot(cat, type_name, _load_page(fs, type_name, p)[1][1], s, primary_key).ok
    /\ MatchSlot(cat, type_name, _load_page(fs, type_name, p)[1][1], s, primary_key).v # None
    /\ fs2 = WriteFile(fs, _get_data_file_path(type_name),
                       DeletedBytes(fs[_get_data_file_path(type_name)], p, s,
                                    TypeInfo(cat, type_name).record_size,
                                    _parse_page_header(_load_page(fs, type_name, p)[1][1])))

\* The keys searched for around a delete
C16_Keys == Keys \cup PagesKeys \cup WideKeys \cup { V_1 }

\* C16: a delete_record(T, k) that returns True leaves the catalog unchanged
\* and changes, in one page of T's file, only the validity byte of one slot
\* that held a valid record of key k (to 0), that slot's bitmap bit (cleared)
\* and the record count (minus 1), every other byte of every file staying the
\* same and search_record of every other key returning what it returned
\* before; every other delete_record returns False and changes no file.
C16_DeleteFrame ==
    [][ result'.op = "delete_record" =>
          IF result'.out = Ok(TRUE)
          THEN /\ catalog' = catalog
               /\ \E p \in 0..(MAX_PAGES_PER_FILE - 1), s \in 0..(MAX_RECORDS_PER_PAGE - 1) :
                      DeletesOnly(catalog, files, files', result'.args.type_name,
                                  result'.args.primary_key, p, s)
               /\ \A k \in C16_Keys \ { result'.args.primary_key } :
                      search_record(catalog, files', result'.args.type_name, k)
                      = search_record(catalog, files, result'.args.type_name, k)
          ELSE /\ result'.out = Ok(FALSE)
               /\ files' = files
               /\ catalog' = catalog ]_vars

\* What search_record returns for every key of a sample that holds every key
\* of the records and calls of the stepwise specifications
C17_Keys == PagesKeys \cup { PagesRecords[i][2] : i \in 1..Len(PagesRecords) }

Observable(fs) == [k \in C17_Keys |-> search_record(catalog, fs, N_T, k)]

\* The files as the call c leaves them when it runs to its end on the files
\* it began with
AfterCall(c) ==
    IF c.save = None THEN c.before
    ELSE _save_page(c.before, c.save[1].type_name, c.save[1].page_number, c.save[1].page_data)

\* The searches see the call c not applied at all, or applied
AppliedOrNot(c) ==
    \/ Observable(files) = Observable(c.before)
    \/ Observable(files) = Observable(AfterCall(c))

\* C17: at every point inside a create_record or delete_record call of a
\* single process, the steps of _save_page included, and after the process
\* has stopped at that point, search_record returns for every key either
\* what it returned before the call or what it returns after the whole call.
C17_NeverPartial ==
    /\ \A p \in DOMAIN inflight : AppliedOrNot(inflight[p])
    /\ (result.op = "stopped" /\ inflight = NoCalls) => AppliedOrNot(result.args)

\* The process has stopped between the extension of the file and the write
\* of the page: the files are neither those before the call nor those after
C17_Witness ==
    /\ result.op = "stopped"
    /\ inflight = NoCalls
    /\ result.args.at = "write"
    /\ files # result.args.before
    /\ files # AfterCall(result.args)

\* The keys whose records are followed: those of the records and of the
\* calls of the pages specification
C18_Keys == PagesKeys \cup { PagesRecords[i][2] : i \in 1..Len(PagesRecords) }

\* C18: for every type and primary-key value, what search_record returns
\* changes in a step only from absent to a record, in a create_record of that
\* key value that returns True, or from a record to absent, in a
\* delete_record of that key that returns True: no step changes the values
\* found for a key, and no call with another key changes what is found for it.
C18_KeyTransitions ==
    [][ \A k \in C18_Keys :
          search_record(catalog, files', N_T, k) # search_record(catalog, files, N_T, k)
          => \/ /\ search_record(catalog, files, N_T, k) = Ok(None)
                /\ search_record(catalog, files', N_T, k).ok
                /\ result'.op = "create_record"
                /\ result'.out = Ok(TRUE)
                /\ SameKey(KeyKind(N_T), PassedKey(N_T, result'.args.values), k)
             \/ /\ search_record(catalog, files, N_T, k).ok
                /\ search_record(catalog, files', N_T, k) = Ok(None)
                /\ result'.op = "delete_record"
                /\ result'.out = Ok(TRUE)
                /\ result'.args.primary_key = k ]_vars

\* An update is lost: a record whose create_record returned True, and that no
\* delete_record that returned True has removed since, is not found, or a
\* record removed by a delete_record that returned True is found
Lost(fs, accepted) ==
    \E k \in C17_Keys :
        IF << N_T, k >> \in DOMAIN accepted
        THEN search_record(catalog, fs, N_T, k) = Ok(None)
        ELSE search_record(catalog, fs, N_T, k) # Ok(None)

\* C19: with the steps of two processes interleaved, a page reflecting only
\* one of a create_record and a delete_record that both returned True is
\* reachable (the witness), and an update is lost only in a step taken while
\* a call is in flight that overlapped another call: calls that run one after
\* the other lose nothing.
C19_LostOnlyWhenInterleaved ==
    [][ (~Lost(files, live) /\ Lost(files', live')) => \E p \in DOMAIN inflight : inflight[p].overlapped ]_vars

\* A lost update.  The file held the records of the keys 0 and 1; a
\* create_record of key 10 and a delete_record of key 0, the two calls made,
\* have overlapped and both have returned True (key 10 is among the accepted
\* records and key 0, which was, is no more).  The page reflects only one of
\* them: the bit of the deleted record is set again and search_record finds
\* the record the delete removed, or the bit of the created record is
\* missing and search_record does not find the record the create stored.
C19_Witness ==
    /\ inflight = NoCalls
    /\ nops = 2
    /\ result.out = Ok(TRUE)
    /\ result.overlapped
    /\ << N_T, V_1 >> \in DOMAIN live
    /\ << N_T, V_10 >> \in DOMAIN live
    /\ << N_T, V_0 >> \notin DOMAIN live
    /\ \/ /\ BitIsSet(HeaderBitmap(files, N_T, 0), 0)
          /\ search_record(catalog, files, N_T, V_0) = Ok(Some(<< V_A, V_0 >>))
       \/ /\ HeaderBitmap(files, N_T, 0) = 2
          /\ search_record(catalog, files, N_T, V_10) = Ok(None)

\* The file of that path is the same, or as absent, in both sets of files
SameFile(fs, fs2, path) ==
    IF path \in DOMAIN fs THEN path \in DOMAIN fs2 /\ fs2[path] = fs[path]
    ELSE path \notin DOMAIN fs2

\* C20: for every type name create_type has accepted, a create_record or
\* delete_record on that type leaves the catalog file and the data file of
\* every other type as they are, and a create_type, which saves the catalog,
\* leaves the data file of every type as it is.
C20_StorageDisjoint ==
    [][ /\ result'.op \in { "create_record", "delete_record" }
           => /\ SameFile(files, files', catalog_file)
              /\ \A other \in CatalogNames(catalog) \ { result'.args.type_name } :
                     SameFile(files, files', _get_data_file_path(other))
        /\ result'.op = "create_type"
           => \A type_name \in CatalogNames(catalog') :
                  SameFile(files, files', _get_data_file_path(type_name)) ]_vars

\* The abstract map of a type, run beside the engine: live, the map from the
\* key passed to the values passed, of the records accepted and not deleted
MapKeys(type_name) == { q[2] : q \in { k \in DOMAIN live : k[1] = type_name } }

\* The values of a map entry as a record holds them: encoded and decoded
AsStored(type_name, values) ==
    _deserialize_record(catalog, type_name,
                        _serialize_record(catalog, type_name, values).v).v[1]

\* What the abstract map answers to the call: create fails on a present key
\* or a full map, delete fails on an absent key, search returns the mapped
\* values or absent
MapAnswer(op, type_name, key) ==
    IF op = "create_record"
    THEN Ok(key \notin MapKeys(type_name)
            /\ Cardinality(MapKeys(type_name)) < MAX_PAGES_PER_FILE * MAX_RECORDS_PER_PAGE)
    ELSE IF op = "delete_record" THEN Ok(key \in MapKeys(type_name))
    ELSE IF key \in MapKeys(type_name)
         THEN Ok(Some(AsStored(type_name, live[<< type_name, key >>])))
         ELSE Ok(None)

\* The call of the step is a call on a type of the catalog, with values the
\* validators accept when it is a create_record
IsMapCall(r) ==
    /\ r.op \in { "create_record", "search_record", "delete_record" }
    /\ InCatalog(catalog, r.args.type_name)
    /\ r.op = "create_record" =>
           /\ Len(r.args.values) = Len(TypeInfo(catalog, r.args.type_name).fields)
           /\ ValuesValid(TypeInfo(catalog, r.args.type_name).fields, r.args.values)

CallKey(r) ==
    IF r.op = "create_record" THEN PassedKey(r.args.type_name, r.args.values)
    ELSE r.args.primary_key

\* C21: every create_record, search_record and delete_record call on a type
\* of the catalog, with values the validators accept, returns what the
\* abstract map from key to values returns for it, and after the call the
\* valid records of the type on disk are the values of the map.
C21_RefinesMap ==
    [][ IsMapCall(result') =>
          /\ result'.out = MapAnswer(result'.op, result'.args.type_name, CallKey(result'))
          /\ { r[3] : r \in StoredRecords(catalog, files', result'.args.type_name) }
             = { AsStored(result'.args.type_name, live'[<< result'.args.type_name, k >>]) :
                 k \in { q[2] : q \in { k2 \in DOMAIN live' : k2[1] = result'.args.type_name } } } ]_vars

\* The call reports no change: a search_record, or a create_record or
\* delete_record that returned False
ReportsNoChange(r) ==
    \/ r.op = "search_record"
    \/ r.op \in { "create_record", "delete_record" } /\ r.out = Ok(FALSE)

\* C22: a search_record, found or not, and every create_record or
\* delete_record that returns False, leave the catalog and every file, the
\* catalog file and every page of every data file, exactly as they were.
C22_NoChangeWhenNoneReported ==
    [][ ReportsNoChange(result') => catalog' = catalog /\ files' = files ]_vars

\* A create_record on a type of the catalog, with the right number of
\* values, all of them valid, has returned False for its key being found,
\* on data files that hold records
C22_Witness ==
    /\ IsMapCall(result)
    /\ result.op = "create_record"
    /\ result.out = Ok(FALSE)
    /\ search_record(catalog, files, result.args.type_name, CallKey(result)).ok
    /\ search_record(catalog, files, result.args.type_name, CallKey(result)).v # None

=============================================================================
